---- MODULE Spec2Model ----
(***************************************************************************)
(* A model of Grafatko's graph data model (grafatko/graph.py: Node,        *)
(* Vertex, Graph) and of its colour-animation queue (grafatko/animation.py *)
(* and DrawableGraph.draw / change_color / pause / resume / clear).        *)
(*                                                                         *)
(* Node objects are represented by their identity, a number of NodeIds; a  *)
(* new node takes the least free one.  Python iterates a set of objects in *)
(* an order that depends on their addresses: wherever the code iterates a  *)
(* set of nodes and the order shows in the result, the operator takes the  *)
(* order as an argument (a permutation of NodeIds) and the action chooses  *)
(* it freely.                                                              *)
(***************************************************************************)
EXTENDS Integers, Sequences, FiniteSets, TLC

\* bounds of the model
MaxNodes == 3
MaxWeight == 2
MaxOps == 6

\* Vertex.__init__: weight=1
DefaultWeight == 1

NodeIds == 1..MaxNodes
Weights == 1..MaxWeight

VARIABLES
    directed,      \* Graph.directed
    nodes,         \* Graph.nodes: the list of nodes
    vertices,      \* Graph.vertices: the list of Vertex objects
    adjacent,      \* Node.adjacent of every node object, as the set of v[1]
    components,    \* Graph.components: a list of sets of nodes
    last,          \* history: the operation that produced this state
    ops,           \* history: the number of operations performed
    animations,    \* DrawableGraph.animations: the queue of (obj, animation)
    color,         \* the brush colour of every node and vertex object
    selected,      \* Selectable.selected of every node and vertex object
    now,           \* the clock the QElapsedTimers read
    created,       \* history: the number of animations created so far
    stopped,       \* history: the tick just made called animation_stopped
    held,          \* history: the animations queued, and those of them started,
                   \* when pause_animations was last called, if neither
                   \* resume_animations nor clear_animations was called since
                   \* (kept by the specifications that set held.track)
    position,      \* DrawableNode.position of every node object
    drag,          \* DrawableNode.drag of every node object: is it not None
    forces,        \* DrawableNode.forces of every node object
    root,          \* DrawableGraph.root (0: None)
    distance_from_root,  \* DrawableGraph.distance_from_root: the BFS layers
    canvas_forces, \* Canvas.forces: whether the forces are enabled
    ticks,         \* history: the number of calls of Canvas.update
    weighted,      \* Graph.weighted
    label,         \* Node.label of every node object
    file,          \* the text file export_graph writes and import_graph reads
    failed,        \* history: the import just made showed the error box
    address        \* id() of the node objects: their order by address

graphVars == <<directed, nodes, vertices, adjacent, components>>
animVars == <<animations, color, selected, now, created, stopped, held>>
forceVars == <<position, drag, forces, root, distance_from_root,
               canvas_forces, ticks>>
textVars == <<weighted, label, file, failed, address>>
vars == <<directed, nodes, vertices, adjacent, components, last, ops,
          animations, color, selected, now, created, stopped, held,
          position, drag, forces, root, distance_from_root, canvas_forces,
          ticks, weighted, label, file, failed, address>>

----------------------------------------------------------------------------
\* generic helpers

SeqToSet(s) == {s[i] : i \in DOMAIN s}

RemoveAt(s, i) == SubSeq(s, 1, i - 1) \o SubSeq(s, i + 1, Len(s))

MinOf(S) == CHOOSE x \in S : \A y \in S : x <= y

\* the orders in which a set of nodes may be iterated
Orders ==
    {o \in [NodeIds -> NodeIds] : \A i, j \in NodeIds : i # j => o[i] # o[j]}

\* the member of S that the order ord reaches first
FirstIn(ord, S) == ord[MinOf({i \in DOMAIN ord : ord[i] \in S})]

----------------------------------------------------------------------------
\* Node and Vertex

\* Vertex(node_from, node_to, weight)
Vertex(n1, n2, w) == [node_from |-> n1, node_to |-> n2, weight |-> w]

\* Vertex.__eq__ against the pair (a, b): identity of both endpoints
VertexEq(v, a, b) == v.node_from = a /\ v.node_to = b

\* Vertex.is_loop
is_loop(v) == v.node_from = v.node_to

\* Node.get_adjacent_nodes: {v[1] for v in self.adjacent}
get_adjacent_nodes(g, n) == g.adjacent[n]

\* Node.is_adjacent_to
is_adjacent_to(g, n1, n2) == n2 \in get_adjacent_nodes(g, n1)

\* Node._remove_adjacent_node, applied to node n of graph state g
remove_adjacent_node(g, n, other) ==
    [g EXCEPT !.adjacent[n] = @ \ {other}]

\* Node._add_adjacent_vertex, applied to node v.node_from
add_adjacent_vertex(g, v) ==
    [g EXCEPT !.adjacent[v.node_from] = @ \cup {v.node_to}]

----------------------------------------------------------------------------
\* Graph: the state as a record, so that operations compose

Graph ==
    [directed |-> directed, nodes |-> nodes, vertices |-> vertices,
     adjacent |-> adjacent, components |-> components]

\* Graph.__init__ (components = None is modelled by the empty list: no node
\* exists before the first add_node, which rebuilds the list)
NewGraph ==
    [directed |-> FALSE, nodes |-> <<>>, vertices |-> <<>>,
     adjacent |-> [n \in NodeIds |-> {}], components |-> <<>>]

\* lines 130-135: merge every existing component that meets the candidate
RECURSIVE MergeScan(_, _, _)
MergeScan(comps, component, i) ==
    IF i > Len(comps) THEN <<comps, component>>
    ELSE IF comps[i] \cap component # {}
         THEN MergeScan(RemoveAt(comps, i), component \cup comps[i], i)
         ELSE MergeScan(comps, component, i + 1)

\* lines 126-137: one candidate per node, in list order
RECURSIVE ComponentsLoop(_, _, _)
ComponentsLoop(g, comps, k) ==
    IF k > Len(g.nodes) THEN comps
    ELSE LET node == g.nodes[k]
             r == MergeScan(comps, {node} \cup get_adjacent_nodes(g, node), 1)
         IN  ComponentsLoop(g, Append(r[1], r[2]), k + 1)

\* the decorator's rebuild, run after the wrapped function
recalculate_components(g) ==
    [g EXCEPT !.components = ComponentsLoop(g, <<>>, 1)]

\* Graph.weakly_connected: "none" when no component holds either node
RECURSIVE WeaklyConnectedScan(_, _, _, _)
WeaklyConnectedScan(comps, n1, n2, i) ==
    IF i > Len(comps) THEN "none"
    ELSE LET a == n1 \in comps[i]
             b == n2 \in comps[i]
         IN  IF a /\ b THEN "true"
             ELSE IF a \/ b THEN "false"
             ELSE WeaklyConnectedScan(comps, n1, n2, i + 1)

weakly_connected(g, n1, n2) == WeaklyConnectedScan(g.components, n1, n2, 1)

\* Graph.add_node
add_node(g, node) ==
    recalculate_components([g EXCEPT !.nodes = Append(@, node)])

\* list.remove: the first occurrence
RemoveFirst(s, x) ==
    LET i == MinOf({k \in DOMAIN s : s[k] = x}) IN RemoveAt(s, i)

\* lines 264-266: every node still in the list forgets the removed one
RECURSIVE ForgetNode(_, _, _)
ForgetNode(g, node, k) ==
    IF k > Len(g.nodes) THEN g
    ELSE ForgetNode(remove_adjacent_node(g, g.nodes[k], node), node, k + 1)

\* mutant of remove_node: the other nodes keep the removed node as adjacent
remove_node_keep_adjacent(g, node) ==
    recalculate_components(
        [g EXCEPT
           !.nodes = RemoveFirst(@, node),
           !.vertices = SelectSeq(@, LAMBDA v :
                           ~(v.node_from = node \/ v.node_to = node))])

\* mutant of remove_node: only the vertices that leave the node are removed
remove_node_outgoing(g, node) ==
    LET g1 == [g EXCEPT
                 !.nodes = RemoveFirst(@, node),
                 !.vertices = SelectSeq(@, LAMBDA v : v.node_from # node)]
    IN  recalculate_components(ForgetNode(g1, node, 1))

\* Graph.remove_node
remove_node(g, node) ==
    LET g1 == [g EXCEPT
                 !.nodes = RemoveFirst(@, node),
                 !.vertices = SelectSeq(@, LAMBDA v :
                                 ~(v.node_from = node \/ v.node_to = node))]
    IN  recalculate_components(ForgetNode(g1, node, 1))

\* mutant of add_vertex: the reverse vertex gets the default weight
add_vertex_reverse_default(g, n1, n2, weight) ==
    IF (n1 = n2 /\ ~g.directed) \/ is_adjacent_to(g, n1, n2)
    THEN recalculate_components(g)
    ELSE LET v1 == Vertex(n1, n2, weight)
             g1 == add_adjacent_vertex([g EXCEPT !.vertices = Append(@, v1)], v1)
             v2 == Vertex(n2, n1, DefaultWeight)
             g2 == IF ~g.directed
                   THEN add_adjacent_vertex(
                            [g1 EXCEPT !.vertices = Append(@, v2)], v2)
                   ELSE g1
         IN  recalculate_components(g2)

\* mutant of add_vertex: a vertex that exists already is added again
add_vertex_again(g, n1, n2, weight) ==
    IF n1 = n2 /\ ~g.directed
    THEN recalculate_components(g)
    ELSE LET v1 == Vertex(n1, n2, weight)
             g1 == add_adjacent_vertex([g EXCEPT !.vertices = Append(@, v1)], v1)
             v2 == Vertex(n2, n1, weight)
             g2 == IF ~g.directed
                   THEN add_adjacent_vertex(
                            [g1 EXCEPT !.vertices = Append(@, v2)], v2)
                   ELSE g1
         IN  recalculate_components(g2)

\* Graph.add_vertex
add_vertex(g, n1, n2, weight) ==
    IF (n1 = n2 /\ ~g.directed) \/ is_adjacent_to(g, n1, n2)
    THEN recalculate_components(g)
    ELSE LET v1 == Vertex(n1, n2, weight)
             g1 == add_adjacent_vertex([g EXCEPT !.vertices = Append(@, v1)], v1)
             v2 == Vertex(n2, n1, weight)
             g2 == IF ~g.directed
                   THEN add_adjacent_vertex(
                            [g1 EXCEPT !.vertices = Append(@, v2)], v2)
                   ELSE g1
         IN  recalculate_components(g2)

\* mutant of remove_vertex: the components are not rebuilt
remove_vertex_stale(g, n1, n2) ==
    LET g1 == [g EXCEPT !.vertices = SelectSeq(@, LAMBDA v :
                   ~(VertexEq(v, n1, n2)
                     \/ (~g.directed /\ VertexEq(v, n2, n1))))]
        g2 == remove_adjacent_node(g1, n1, n2)
    IN  IF ~g.directed THEN remove_adjacent_node(g2, n2, n1) ELSE g2

\* mutant of remove_vertex: both directions go, directed or not
remove_vertex_both_ways(g, n1, n2) ==
    LET g1 == [g EXCEPT !.vertices = SelectSeq(@, LAMBDA v :
                   ~(VertexEq(v, n1, n2) \/ VertexEq(v, n2, n1)))]
    IN  recalculate_components(
            remove_adjacent_node(remove_adjacent_node(g1, n1, n2), n2, n1))

\* Graph.remove_vertex
remove_vertex(g, n1, n2) ==
    LET g1 == [g EXCEPT !.vertices = SelectSeq(@, LAMBDA v :
                   ~(VertexEq(v, n1, n2)
                     \/ (~g.directed /\ VertexEq(v, n2, n1))))]
        g2 == remove_adjacent_node(g1, n1, n2)
        g3 == IF ~g.directed THEN remove_adjacent_node(g2, n2, n1) ELSE g2
    IN  recalculate_components(g3)

\* mutant of toggle_vertex: never removes
toggle_vertex_add_only(g, n1, n2) == add_vertex(g, n1, n2, DefaultWeight)

\* Graph.toggle_vertex
toggle_vertex(g, n1, n2) ==
    IF is_adjacent_to(g, n1, n2)
    THEN remove_vertex(g, n1, n2)
    ELSE add_vertex(g, n1, n2, DefaultWeight)

\* lines 173-177: the neighbours of one node
RECURSIVE MirrorNeighbours(_, _, _, _)
MirrorNeighbours(g, node, todo, ord) ==
    IF todo = {} THEN g
    ELSE LET neighbour == FirstIn(ord, todo)
             g1 == IF node = neighbour
                   THEN remove_vertex(g, node, neighbour)
                   ELSE add_vertex(g, neighbour, node, DefaultWeight)
         IN  MirrorNeighbours(g1, node, todo \ {neighbour}, ord)

\* lines 172-177: every node, in list order
RECURSIVE MirrorAll(_, _, _)
MirrorAll(g, k, ord) ==
    IF k > Len(g.nodes) THEN g
    ELSE LET node == g.nodes[k]
         IN  MirrorAll(MirrorNeighbours(g, node, get_adjacent_nodes(g, node),
                                        ord),
                       k + 1, ord)

\* lines 180-183: v1 = vs[i] gives its weight to every reverse v2
RECURSIVE EqualizeWeights(_, _)
EqualizeWeights(vs, i) ==
    IF i > Len(vs) THEN vs
    ELSE EqualizeWeights(
             [k \in DOMAIN vs |->
                 IF VertexEq(vs[i], vs[k].node_to, vs[k].node_from)
                 THEN [vs[k] EXCEPT !.weight = vs[i].weight]
                 ELSE vs[k]],
             i + 1)

\* mutant of set_directed: the weights of the two directions are not equalized
set_directed_no_equalize(g, d, ord) ==
    IF g.directed
    THEN [MirrorAll(g, 1, ord) EXCEPT !.directed = d]
    ELSE [g EXCEPT !.directed = d]

\* Graph.set_directed; ord is the order in which the sets of adjacent nodes
\* are iterated
set_directed(g, d, ord) ==
    IF g.directed
    THEN LET g1 == MirrorAll(g, 1, ord)
         IN  [g1 EXCEPT !.vertices = EqualizeWeights(@, 1), !.directed = d]
    ELSE [g EXCEPT !.directed = d]

\* lines 202-205: the first vertex that goes the other way
ReverseIndex(vs, v) ==
    LET S == {k \in DOMAIN vs : VertexEq(vs[k], v.node_to, v.node_from)}
    IN  IF S = {} THEN 0 ELSE MinOf(S)

\* Graph.set_weight, the vertex being the i-th of the list
set_weight(g, i, weight) ==
    LET vs1 == [g.vertices EXCEPT ![i].weight = weight]
        r == ReverseIndex(vs1, vs1[i])
    IN  IF ~g.directed /\ r # 0
        THEN [g EXCEPT !.vertices = [vs1 EXCEPT ![r].weight = weight]]
        ELSE [g EXCEPT !.vertices = vs1]

\* lines 230-234: n1 = nodes[i] against n2 = nodes[j], j >= i
RECURSIVE ReorientPairs(_, _, _)
ReorientPairs(g, i, j) ==
    IF i > Len(g.nodes) THEN g
    ELSE IF j > Len(g.nodes) THEN ReorientPairs(g, i + 1, i + 1)
    ELSE LET n1 == g.nodes[i]
             n2 == g.nodes[j]
             g1 == IF is_adjacent_to(g, n1, n2) # is_adjacent_to(g, n2, n1)
                   THEN toggle_vertex(toggle_vertex(g, n1, n2), n2, n1)
                   ELSE g
         IN  ReorientPairs(g1, i, j + 1)

\* mutant of reorient: the vertex is removed and its reverse is not added
reorient_remove(g) ==
    recalculate_components(
        [g EXCEPT !.vertices = SelectSeq(@, LAMBDA v :
                      is_adjacent_to(g, v.node_to, v.node_from))])

\* Graph.reorient
reorient(g) == ReorientPairs(g, 1, 1)

\* lines 240-247 with the second toggle kept from the node paired with itself
RECURSIVE ComplementPairs_once(_, _, _)
ComplementPairs_once(g, i, j) ==
    IF i > Len(g.nodes) THEN g
    ELSE IF j > Len(g.nodes) THEN ComplementPairs_once(g, i + 1, i + 1)
    ELSE LET n1 == g.nodes[i]
             n2 == g.nodes[j]
             g1 == toggle_vertex(g, n1, n2)
             g2 == IF g1.directed /\ n1 # n2
                   THEN toggle_vertex(g1, n2, n1) ELSE g1
         IN  ComplementPairs_once(g2, i, j + 1)

\* lines 240-247
RECURSIVE ComplementPairs(_, _, _)
ComplementPairs(g, i, j) ==
    IF i > Len(g.nodes) THEN g
    ELSE IF j > Len(g.nodes) THEN ComplementPairs(g, i + 1, i + 1)
    ELSE LET n1 == g.nodes[i]
             n2 == g.nodes[j]
             g1 == toggle_vertex(g, n1, n2)
             g2 == IF g1.directed THEN toggle_vertex(g1, n2, n1) ELSE g1
         IN  ComplementPairs(g2, i, j + 1)

\* Graph.complement
complement(g) == ComplementPairs(g, 1, 1)

----------------------------------------------------------------------------
\* colours and animations (color.py, animation.py)

\* bounds of the animation engine's model: the animations created in a run
\* and the time that passes in it; and the animations created in a run in
\* which objects are also selected or removed
MaxAnimations == 3
MaxClock == 2
MaxQueued == 2

\* Animation.default_duration
DefaultDuration == 1000

\* the nodes that get coloured and the durations asked for: none (0 stands
\* for duration=None) or one unit of time
Targets == {1, 2}
Durations == {0, 1}

\* the objects that have a colour and a selection flag: the node objects,
\* and the vertex objects, told apart by their endpoints and numbered after
\* the nodes
VertexId(n1, n2) == MaxNodes + (n1 - 1) * MaxNodes + n2
Objects == 1..(MaxNodes + MaxNodes * MaxNodes)
ObjectsOf(g) ==
    SeqToSet(g.nodes)
    \cup {VertexId(g.vertices[i].node_from, g.vertices[i].node_to) :
            i \in DOMAIN g.vertices}

\* a ColorGenerating value: a palette colour, a fixed colour, or an animation
\* object (which is what an animated object's brush holds)
Color_text == [kind |-> "text", id |-> 0]
Color_background == [kind |-> "background", id |-> 0]
Color(c) == [kind |-> "color", id |-> c]
AnimationColor(a) == [kind |-> "animation", id |-> a.id]

\* ColorAnimation(color_from, color_to, duration=..., parallel=...); the n-th
\* object created is told apart by id
ColorAnimation(id, color_from, color_to, duration, parallel) ==
    [id |-> id, color_from |-> color_from, color_to |-> color_to,
     parallel |-> parallel, started |-> FALSE, paused |-> FALSE,
     paused_time |-> 0,
     duration |-> IF duration # 0 THEN duration ELSE DefaultDuration,
     timer |-> 0]

\* QElapsedTimer.elapsed() at the clock's time t
elapsed(a, t) == t - a.timer

\* the time of Animation.__call__
call_time(a, t) == a.paused_time + (IF a.paused THEN 0 ELSE elapsed(a, t))

start(a, t) == [a EXCEPT !.timer = t, !.started = TRUE]

pause(a, t) ==
    IF a.started /\ ~a.paused
    THEN [a EXCEPT !.paused = TRUE, !.paused_time = elapsed(a, t)]
    ELSE a

resume(a, t) ==
    IF a.started /\ a.paused
    THEN [a EXCEPT !.paused = FALSE, !.timer = t]
    ELSE a

\* mutant of has_finished: a paused animation finishes too
has_finished_paused(a, t) ==
    /\ a.started
    /\ a.paused_time + elapsed(a, t) > a.duration

has_finished(a, t) ==
    /\ a.started
    /\ a.paused_time + elapsed(a, t) > a.duration
    /\ ~a.paused

get_end_value(a) == a.color_to

----------------------------------------------------------------------------
\* the graph's operations as actions

SetGraph(g) ==
    /\ directed' = g.directed
    /\ nodes' = g.nodes
    /\ vertices' = g.vertices
    /\ adjacent' = g.adjacent
    /\ components' = g.components

\* the history: the operation, the directed flag it found, the arguments of
\* toggle_vertex, and whether it repeats the toggle made just before it
Op(name, a, b) ==
    [op |-> name, d |-> directed, a |-> a, b |-> b,
     rep |-> name = "toggle_vertex" /\ last.op = name
                 /\ last.a = a /\ last.b = b /\ ~last.rep]

\* every operation uses one unit of the run's budget
Step(name, a, b) ==
    /\ ops < MaxOps
    /\ ops' = ops + 1
    /\ last' = Op(name, a, b)
    /\ UNCHANGED <<animVars, forceVars, textVars>>

InGraph(n) == n \in SeqToSet(nodes)

\* a new node object (Node.__init__: adjacent = set()) is added
AddNode(n) ==
    /\ ~InGraph(n)
    /\ \A m \in NodeIds : m < n => InGraph(m)
    /\ Step("add_node", 0, 0)
    /\ SetGraph(add_node([Graph EXCEPT !.adjacent[n] = {}], n))

RemoveNode(n) ==
    /\ InGraph(n)
    /\ Step("remove_node", 0, 0)
    /\ SetGraph(remove_node(Graph, n))

AddVertex(n1, n2, w) ==
    /\ InGraph(n1) /\ InGraph(n2)
    /\ Step("add_vertex", 0, 0)
    /\ SetGraph(add_vertex(Graph, n1, n2, w))

RemoveVertex(n1, n2) ==
    /\ InGraph(n1) /\ InGraph(n2)
    /\ Step("remove_vertex", 0, 0)
    /\ SetGraph(remove_vertex(Graph, n1, n2))

ToggleVertex(n1, n2) ==
    /\ InGraph(n1) /\ InGraph(n2)
    /\ Step("toggle_vertex", n1, n2)
    /\ SetGraph(toggle_vertex(Graph, n1, n2))

SetWeight(i, w) ==
    /\ i \in DOMAIN vertices
    /\ Step("set_weight", 0, 0)
    /\ SetGraph(set_weight(Graph, i, w))

SetDirected(d) ==
    /\ Step("set_directed", 0, 0)
    /\ \E ord \in Orders : SetGraph(set_directed(Graph, d, ord))

Reorient ==
    /\ Step("reorient", 0, 0)
    /\ SetGraph(reorient(Graph))

Complement ==
    /\ Step("complement", 0, 0)
    /\ SetGraph(complement(Graph))

\* Node.label: None, or a string
NoLabel == [some |-> FALSE, text |-> ""]
Label(t) == [some |-> TRUE, text |-> t]

\* the file: its lines, each one the fields line.strip().split() gives, and
\* whether it was edited since it was written
NoFile == [lines |-> <<>>, edited |-> FALSE]

\* the canvas and the nodes as constructed: DrawableNode.__init__ (position
\* Vector(0, 0), no force, no drag), DrawableGraph.__init__ (no root),
\* Canvas.forces, Graph.__init__ (weighted False), Node.__init__ (no label)
CanvasInit ==
    /\ position = [n \in NodeIds |-> <<0, 0>>]
    /\ drag = [n \in NodeIds |-> FALSE]
    /\ forces = [n \in NodeIds |-> <<>>]
    /\ root = 0
    /\ distance_from_root = <<>>
    /\ canvas_forces = TRUE
    /\ ticks = 0
    /\ weighted = FALSE
    /\ label = [n \in NodeIds |-> NoLabel]
    /\ file = NoFile
    /\ failed = FALSE
    /\ address = [n \in NodeIds |-> n]

Init ==
    /\ directed = NewGraph.directed
    /\ nodes = NewGraph.nodes
    /\ vertices = NewGraph.vertices
    /\ adjacent = NewGraph.adjacent
    /\ components = NewGraph.components
    /\ last = [op |-> "init", d |-> FALSE, a |-> 0, b |-> 0, rep |-> FALSE]
    /\ ops = 0
    /\ animations = <<>>
    /\ color = [o \in Objects |-> Color_text]
    /\ selected = [o \in Objects |-> FALSE]
    /\ now = 0
    /\ created = 0
    /\ stopped = FALSE
    /\ held = [track |-> FALSE, queued |-> {}, started |-> {}]
    /\ CanvasInit

Next ==
    \/ \E n \in NodeIds : AddNode(n)
    \/ \E n \in NodeIds : RemoveNode(n)
    \/ \E n1, n2 \in NodeIds, w \in Weights : AddVertex(n1, n2, w)
    \/ \E n1, n2 \in NodeIds : RemoveVertex(n1, n2)
    \/ \E n1, n2 \in NodeIds : ToggleVertex(n1, n2)
    \/ \E i \in 1..(MaxNodes * MaxNodes), w \in Weights : SetWeight(i, w)
    \/ \E d \in BOOLEAN : SetDirected(d)
    \/ Reorient
    \/ Complement

Spec == Init /\ [][Next]_vars

----------------------------------------------------------------------------
\* the animation engine of DrawableGraph

\* mutant of StartCondition: every entry that has not started is started
StartCondition_every(q, i) == TRUE

\* mutant of StartCondition: only the entry at the front is started
StartCondition_front(q, i) == i = 1

\* mutant of StartCondition: the entry before is not asked whether it is
\* parallel
StartCondition_own(q, i) == i = 1 \/ q[i].a.parallel

\* draw: whether the i-th entry of the queue q is started by the scan
StartCondition(q, i) ==
    i = 1 \/ (q[i].a.parallel /\ q[i - 1].a.parallel)

RECURSIVE StartScan_past(_, _, _, _)
\* mutant of StartScan: the scan goes on past the entries that have started
StartScan_past(q, col, i, t) ==
    IF i > Len(q) THEN [animations |-> q, color |-> col]
    ELSE IF q[i].a.started THEN StartScan_past(q, col, i + 1, t)
    ELSE IF ~StartCondition(q, i) THEN [animations |-> q, color |-> col]
    ELSE StartScan_past([q EXCEPT ![i].a = start(@, t)],
                        [col EXCEPT ![q[i].obj] = AnimationColor(q[i].a)],
                        i + 1, t)

RECURSIVE StartScan(_, _, _, _)
\* draw: the scan that starts one non-parallel entry or a run of parallel
\* ones, and gives each started entry's object the animation as its colour
StartScan(q, col, i, t) ==
    IF i > Len(q) \/ q[i].a.started \/ ~StartCondition(q, i)
    THEN [animations |-> q, color |-> col]
    ELSE StartScan([q EXCEPT ![i].a = start(@, t)],
                   [col EXCEPT ![q[i].obj] = AnimationColor(q[i].a)],
                   i + 1, t)

RECURSIVE PopFinished(_, _)
\* draw: the finished entries are popped from the front
PopFinished(q, t) ==
    IF Len(q) > 0 /\ has_finished(q[1].a, t)
    THEN PopFinished(Tail(q), t)
    ELSE q

\* mutant of draw: animation_stopped is called whenever the queue is empty
draw_signal_empty(q, col, t) ==
    LET scanned == StartScan(q, col, 1, t)
        left == PopFinished(scanned.animations, t)
    IN  [animations |-> left, color |-> scanned.color,
         stopped |-> Len(left) = 0]

\* draw, on the queue q and the colours col at the time t
draw(q, col, t) ==
    LET scanned == StartScan(q, col, 1, t)
        left == PopFinished(scanned.animations, t)
    IN  [animations |-> left, color |-> scanned.color,
         stopped |-> Len(q) # 0 /\ Len(left) = 0]

\* mutant of PrevColor: the colour the object has now
PrevColor_live(q, obj, i, prev_c) == prev_c

RECURSIVE PrevColor(_, _, _, _)
\* change_color: the colour the object will have turned to
PrevColor(q, obj, i, prev_c) ==
    IF i > Len(q) THEN prev_c
    ELSE PrevColor(q, obj, i + 1,
                   IF q[i].obj = obj THEN get_end_value(q[i].a) ELSE prev_c)

change_color(q, col, obj, c, id, duration, parallel) ==
    Append(q, [obj |-> obj,
               a |-> ColorAnimation(id, PrevColor(q, obj, 1, col[obj]), c,
                                    duration, parallel)])

pause_animations(q, t) == [i \in DOMAIN q |-> [q[i] EXCEPT !.a = pause(@, t)]]

resume_animations(q, t) == [i \in DOMAIN q |-> [q[i] EXCEPT !.a = resume(@, t)]]

change_color_to_selected(sel) ==
    IF sel THEN Color_background ELSE Color_text

\* mutant of clear_animations: every object gets the unselected colour
clear_animations_text(g, col, sel) ==
    [o \in DOMAIN col |-> IF o \in ObjectsOf(g) THEN Color_text ELSE col[o]]

clear_animations(g, col, sel) ==
    [o \in DOMAIN col |->
        IF o \in ObjectsOf(g) THEN change_color_to_selected(sel[o])
        ELSE col[o]]

\* the history of the last call of pause_animations
Hold(queued, started) ==
    IF held.track
    THEN [track |-> TRUE, queued |-> queued, started |-> started]
    ELSE held

\* the engine leaves the graph as it is
Engine == UNCHANGED <<graphVars, last, ops, forceVars, textVars>>

\* the engine only stores the colour it is asked for and hands it on, so
\* the n-th call asks for the colour n and every two requests are told apart
ChangeColor(obj, duration, parallel) ==
    /\ obj \in ObjectsOf(Graph)
    /\ created < MaxAnimations
    /\ Engine
    /\ created' = created + 1
    /\ animations' = change_color(animations, color, obj, Color(created + 1),
                                  created + 1, duration, parallel)
    /\ stopped' = FALSE
    /\ UNCHANGED <<color, selected, now, held>>

\* one tick of the canvas: paintEvent calls draw
Draw ==
    /\ Engine
    /\ LET d == draw(animations, color, now)
       IN  /\ animations' = d.animations
           /\ color' = d.color
           /\ stopped' = d.stopped
    /\ UNCHANGED <<selected, now, created, held>>

PauseAnimations ==
    /\ Engine
    /\ animations' = pause_animations(animations, now)
    /\ held' = Hold({animations[i].a.id : i \in DOMAIN animations},
                     {animations[i].a.id :
                         i \in {j \in DOMAIN animations :
                                   animations[j].a.started}})
    /\ stopped' = FALSE
    /\ UNCHANGED <<color, selected, now, created>>

ResumeAnimations ==
    /\ Engine
    /\ animations' = resume_animations(animations, now)
    /\ held' = Hold({}, {})
    /\ stopped' = FALSE
    /\ UNCHANGED <<color, selected, now, created>>

ClearAnimations ==
    /\ Engine
    /\ animations' = <<>>
    /\ color' = clear_animations(Graph, color, selected)
    /\ held' = Hold({}, {})
    /\ stopped' = FALSE
    /\ UNCHANGED <<selected, now, created>>

\* select and deselect: __change_selected_value
ChangeSelected(obj, value) ==
    /\ obj \in ObjectsOf(Graph)
    /\ Engine
    /\ selected' = [selected EXCEPT ![obj] = value]
    /\ color' = IF Len(animations) = 0
                THEN [color EXCEPT ![obj] = change_color_to_selected(value)]
                ELSE color
    /\ stopped' = FALSE
    /\ UNCHANGED <<animations, now, created, held>>

\* time passes by one unit; every timer reads the same clock
AdvanceTime ==
    /\ now < MaxClock
    /\ Engine
    /\ now' = now + 1
    /\ stopped' = FALSE
    /\ UNCHANGED <<animations, color, selected, created, held>>

RECURSIVE GraphOfNodes(_)
\* the graph after add_node of k new nodes
GraphOfNodes(k) ==
    IF k = 0 THEN NewGraph ELSE add_node(GraphOfNodes(k - 1), k)

\* a graph of the nodes that get coloured, nothing selected, nothing queued
AnimInit ==
    /\ directed = GraphOfNodes(Cardinality(Targets)).directed
    /\ nodes = GraphOfNodes(Cardinality(Targets)).nodes
    /\ vertices = GraphOfNodes(Cardinality(Targets)).vertices
    /\ adjacent = GraphOfNodes(Cardinality(Targets)).adjacent
    /\ components = GraphOfNodes(Cardinality(Targets)).components
    /\ last = [op |-> "init", d |-> FALSE, a |-> 0, b |-> 0, rep |-> FALSE]
    /\ ops = 0
    /\ animations = <<>>
    /\ color = [o \in Objects |-> Color_text]
    /\ selected = [o \in Objects |-> FALSE]
    /\ now = 0
    /\ created = 0
    /\ stopped = FALSE
    /\ held = [track |-> FALSE, queued |-> {}, started |-> {}]
    /\ CanvasInit

AnimNext ==
    \/ \E obj \in Targets, duration \in Durations, parallel \in BOOLEAN :
          ChangeColor(obj, duration, parallel)
    \/ Draw
    \/ PauseAnimations
    \/ ResumeAnimations
    \/ ClearAnimations
    \/ AdvanceTime

AnimSpec == AnimInit /\ [][AnimNext]_vars

\* the engine with the history of pause_animations kept
PauseInit ==
    /\ directed = GraphOfNodes(Cardinality(Targets)).directed
    /\ nodes = GraphOfNodes(Cardinality(Targets)).nodes
    /\ vertices = GraphOfNodes(Cardinality(Targets)).vertices
    /\ adjacent = GraphOfNodes(Cardinality(Targets)).adjacent
    /\ components = GraphOfNodes(Cardinality(Targets)).components
    /\ last = [op |-> "init", d |-> FALSE, a |-> 0, b |-> 0, rep |-> FALSE]
    /\ ops = 0
    /\ animations = <<>>
    /\ color = [o \in Objects |-> Color_text]
    /\ selected = [o \in Objects |-> FALSE]
    /\ now = 0
    /\ created = 0
    /\ stopped = FALSE
    /\ held = [track |-> TRUE, queued |-> {}, started |-> {}]
    /\ CanvasInit

\* change_color in the runs that keep the history of pause_animations: two
\* entries, one behind the other, are what a pause is about
QueueTimed(obj, duration, parallel) ==
    /\ created < MaxQueued
    /\ ChangeColor(obj, duration, parallel)

PauseNext ==
    \/ \E obj \in Targets, duration \in Durations, parallel \in BOOLEAN :
          QueueTimed(obj, duration, parallel)
    \/ Draw
    \/ PauseAnimations
    \/ ResumeAnimations
    \/ ClearAnimations
    \/ AdvanceTime

PauseSpec == PauseInit /\ [][PauseNext]_vars

\* a directed graph of the nodes that get coloured and one vertex
DrawnGraph ==
    add_vertex(set_directed(GraphOfNodes(Cardinality(Targets)), TRUE,
                            [n \in NodeIds |-> n]),
               1, 2, DefaultWeight)

\* the engine on a graph with a vertex, whose objects get selected
SelectInit ==
    /\ directed = DrawnGraph.directed
    /\ nodes = DrawnGraph.nodes
    /\ vertices = DrawnGraph.vertices
    /\ adjacent = DrawnGraph.adjacent
    /\ components = DrawnGraph.components
    /\ last = [op |-> "init", d |-> FALSE, a |-> 0, b |-> 0, rep |-> FALSE]
    /\ ops = 0
    /\ animations = <<>>
    /\ color = [o \in Objects |-> Color_text]
    /\ selected = [o \in Objects |-> FALSE]
    /\ now = 0
    /\ created = 0
    /\ stopped = FALSE
    /\ held = [track |-> FALSE, queued |-> {}, started |-> {}]
    /\ CanvasInit

\* change_color in the runs in which objects are also selected or removed:
\* no time passes in them, so no duration is asked for
QueueColor(obj, parallel) ==
    /\ created < MaxQueued
    /\ ChangeColor(obj, 0, parallel)

SelectNext ==
    \/ \E obj \in Objects, parallel \in BOOLEAN : QueueColor(obj, parallel)
    \/ Draw
    \/ PauseAnimations
    \/ ResumeAnimations
    \/ ClearAnimations
    \/ \E obj \in Objects, value \in BOOLEAN : ChangeSelected(obj, value)

SelectSpec == SelectInit /\ [][SelectNext]_vars

\* the engine on a graph with a vertex, whose nodes and vertices get removed
RemovalNext ==
    \/ \E obj \in Objects, parallel \in BOOLEAN : QueueColor(obj, parallel)
    \/ Draw
    \/ PauseAnimations
    \/ ResumeAnimations
    \/ ClearAnimations
    \/ \E n \in NodeIds : RemoveNode(n)
    \/ \E n1, n2 \in NodeIds : RemoveVertex(n1, n2)

RemovalSpec == SelectInit /\ [][RemovalNext]_vars

----------------------------------------------------------------------------
\* The force simulation (grafatko/__init__.py: Canvas.update).
\*
\* Positions and forces are vectors of floats in the code.  Here a vector is
\* a pair of integers, and a force keeps its direction and not its size:
\* each of its components is -1, 0 or 1, the sign of the float component.
\* random() returns a float of [0, 1): a component of the nudge is 0 or 1.

MaxTicks == 1

Sgn(x) == IF x > 0 THEN 1 ELSE IF x < 0 THEN -1 ELSE 0

\* Vector.__add__, Vector.__neg__ and Vector.__sub__
VAdd(a, b) == <<a[1] + b[1], a[2] + b[2]>>
VNeg(a) == <<-a[1], -a[2]>>
VSub(a, b) == VAdd(a, VNeg(b))

RECURSIVE VSum(_)
VSum(l) == IF l = <<>> THEN <<0, 0>> ELSE VAdd(Head(l), VSum(Tail(l)))

\* Vector.distance, squared (the distance is 0 exactly when its square is)
distance2(a, b) == (a[1] - b[1]) * (a[1] - b[1]) + (a[2] - b[2]) * (a[2] - b[2])

\* Vector.unit: the direction of the vector
unit(v) == <<Sgn(v[1]), Sgn(v[2])>>

\* Canvas.repulsion: (1 / distance) ** 2 is positive
repulsion(d2) == 1

\* Canvas.attraction: -(distance - 6) / 3 is positive below the distance 6
\* and negative above it
attraction(d2) == Sgn(36 - d2)

\* Canvas.tree: v * 0.3
tree(v) == <<Sgn(v[1]), Sgn(v[2])>>

\* Canvas.gravity: Vector(0, 0.1)
gravity == <<0, 1>>

\* the values of Vector(random(), random())
Nudges == {<<0, 0>>, <<1, 0>>, <<0, 1>>, <<1, 1>>}

\* the nodes of the set S in the order ord
RECURSIVE InOrder(_, _)
InOrder(ord, S) ==
    IF S = {} THEN <<>>
    ELSE LET x == FirstIn(ord, S) IN <<x>> \o InOrder(ord, S \ {x})

\* recalculate_distance_to_root, lines 867-878: the BFS loop.  A node is
\* closed when it is popped, so it may be listed in several layers
RECURSIVE BFS(_, _, _, _, _)
BFS(g, queue, closed, layers, ord) ==
    IF queue = <<>> THEN layers
    ELSE LET current == Head(queue)[1]
             distance == Head(queue)[2]
             found == InOrder(ord, get_adjacent_nodes(g, current) \ closed)
             entries == [k \in DOMAIN found |-> <<found[k], distance + 1>>]
             listed == IF found = <<>> THEN layers
                       ELSE IF distance + 1 > Len(layers)
                            THEN Append(layers, found)
                            ELSE [layers EXCEPT ![distance + 1] = @ \o found]
         IN  BFS(g, Tail(queue) \o entries, closed \cup {current}, listed, ord)

\* the passes the while loop is given to empty its queue
Fuel == (MaxNodes + 1) * (MaxNodes + 1)

\* lines 867-878 with no node ever closed
RECURSIVE BFSRun_open(_, _, _, _, _, _)
BFSRun_open(g, queue, closed, layers, ord, fuel) ==
    IF queue = <<>> THEN [done |-> TRUE, layers |-> layers, left |-> fuel]
    ELSE IF fuel = 0 THEN [done |-> FALSE, layers |-> layers, left |-> 0]
    ELSE LET current == Head(queue)[1]
             distance == Head(queue)[2]
             found == InOrder(ord, get_adjacent_nodes(g, current))
             entries == [k \in DOMAIN found |-> <<found[k], distance + 1>>]
             listed == IF found = <<>> THEN layers
                       ELSE IF distance + 1 > Len(layers)
                            THEN Append(layers, found)
                            ELSE [layers EXCEPT ![distance + 1] = @ \o found]
         IN  BFSRun_open(g, Tail(queue) \o entries, closed, listed, ord,
                         fuel - 1)

\* lines 867-878, pass by pass: the while loop with its passes counted; done
\* is FALSE when the queue is not empty after fuel passes
RECURSIVE BFSRun(_, _, _, _, _, _)
BFSRun(g, queue, closed, layers, ord, fuel) ==
    IF queue = <<>> THEN [done |-> TRUE, layers |-> layers, left |-> fuel]
    ELSE IF fuel = 0 THEN [done |-> FALSE, layers |-> layers, left |-> 0]
    ELSE LET current == Head(queue)[1]
             distance == Head(queue)[2]
             found == InOrder(ord, get_adjacent_nodes(g, current) \ closed)
             entries == [k \in DOMAIN found |-> <<found[k], distance + 1>>]
             listed == IF found = <<>> THEN layers
                       ELSE IF distance + 1 > Len(layers)
                            THEN Append(layers, found)
                            ELSE [layers EXCEPT ![distance + 1] = @ \o found]
         IN  BFSRun(g, Tail(queue) \o entries, closed \cup {current}, listed,
                    ord, fuel - 1)

\* the decorator recalculate_distance_to_root: layer d is the entry d + 1
recalculate_distance_to_root(g, r, ord) ==
    IF r = 0 THEN <<>> ELSE BFS(g, <<<<r, 1>>>>, {}, <<<<r>>>>, ord)

\* DrawableNode.add_force on the force lists f
add_force(f, node, force) == [f EXCEPT ![node] = Append(@, force)]

\* DrawableNode.evaluate_forces with the forces added to a dragged node too
evaluate_forces_always(st, node, dragged) ==
    [position |-> [st.position EXCEPT ![node] = VAdd(@, VSum(st.forces[node]))],
     forces |-> [st.forces EXCEPT ![node] = <<>>]]

\* DrawableNode.evaluate_forces: the list is drained, and added to the
\* position unless the node is dragged
evaluate_forces(st, node, dragged) ==
    [position |-> IF dragged[node] THEN st.position
                  ELSE [st.position EXCEPT ![node] = VAdd(@, VSum(st.forces[node]))],
     forces |-> [st.forces EXCEPT ![node] = <<>>]]

\* DrawableNode.clear_forces
clear_forces(st, node) == [st EXCEPT !.forces[node] = <<>>]

RECURSIVE SumY(_, _)
SumY(pos, layer) ==
    IF layer = <<>> THEN 0 ELSE pos[Head(layer)][2] + SumY(pos, Tail(layer))

\* lines 72-76: every node listed in the layer is pulled to the pivot, the
\* average of the layer (the offset is taken Len(layer) times, to stay whole)
RECURSIVE LayerForces(_, _, _, _)
LayerForces(f, pos, layer, k) ==
    IF k > Len(layer) THEN f
    ELSE LayerForces(
             add_force(f, layer[k],
                       tree(<<0, SumY(pos, layer) - Len(layer) * pos[layer[k]][2]>>)),
             pos, layer, k + 1)

\* lines 68-76: the layers of the BFS from the root
RECURSIVE TreeForces(_, _, _, _)
TreeForces(f, pos, layers, l) ==
    IF l > Len(layers) THEN f
    ELSE TreeForces(LayerForces(f, pos, layers[l], 1), pos, layers, l + 1)

\* lines 78-81: gravity on the nodes weakly connected to the root
RECURSIVE GravityForces(_, _, _, _)
GravityForces(g, f, r, k) ==
    IF k > Len(g.nodes) THEN f
    ELSE LET node == g.nodes[k]
         IN  GravityForces(g,
                 IF node # r /\ weakly_connected(g, node, r) = "true"
                 THEN add_force(f, node, gravity) ELSE f,
                 r, k + 1)

\* lines 99-113 with the nudge on n2
PairForces_second(g, st, n1, n2, d2, rnd) ==
    IF d2 = 0
    THEN [st EXCEPT !.forces = add_force(@, n2, rnd[<<n1, n2>>])]
    ELSE st

\* lines 92-113: the forces of the pair (n1, n2), weakly connected, at the
\* squared distance d2
PairForces(g, st, n1, n2, d2, rnd) ==
    IF d2 = 0
    THEN [st EXCEPT !.forces = add_force(@, n1, rnd[<<n1, n2>>])]
    ELSE LET uv == unit(VSub(st.position[n2], st.position[n1]))
             fr == repulsion(d2)
             fa == attraction(d2)
             push(f, size) ==
                 add_force(add_force(f, n1, <<-uv[1] * size, -uv[2] * size>>),
                           n2, <<uv[1] * size, uv[2] * size>>)
         IN  [st EXCEPT !.forces =
                 IF is_adjacent_to(g, n1, n2) \/ is_adjacent_to(g, n2, n1)
                 THEN push(push(@, fr), fa)
                 ELSE push(@, fr)]

\* lines 87-113 with the pairs at a distance taken whether or not they are
\* weakly connected
RECURSIVE InnerLoop_apart(_, _, _, _, _)
InnerLoop_apart(g, st, i, j, rnd) ==
    IF j > Len(g.nodes) THEN st
    ELSE LET n1 == g.nodes[i]
             n2 == g.nodes[j]
             d2 == distance2(st.position[n1], st.position[n2])
         IN  IF weakly_connected(g, n1, n2) # "true" /\ d2 = 0
             THEN InnerLoop_apart(g, st, i, j + 1, rnd)
             ELSE InnerLoop_apart(g, PairForces(g, st, n1, n2, d2, rnd),
                                  i, j + 1, rnd)

\* lines 87-113: the inner loop over the nodes after n1
RECURSIVE InnerLoop(_, _, _, _, _)
InnerLoop(g, st, i, j, rnd) ==
    IF j > Len(g.nodes) THEN st
    ELSE LET n1 == g.nodes[i]
             n2 == g.nodes[j]
         IN  IF weakly_connected(g, n1, n2) # "true"
             THEN InnerLoop(g, st, i, j + 1, rnd)
             ELSE InnerLoop(g,
                      PairForces(g, st, n1, n2,
                                 distance2(st.position[n1], st.position[n2]), rnd),
                      i, j + 1, rnd)

\* lines 86-121 with the forces of n1 dropped or applied before its pairs
\* are gone through
RECURSIVE OuterLoop_early(_, _, _, _, _, _)
OuterLoop_early(g, st, i, r, dragged, rnd) ==
    IF i > Len(g.nodes) THEN st
    ELSE LET n1 == g.nodes[i]
             settled == IF n1 = r THEN clear_forces(st, n1)
                        ELSE evaluate_forces(st, n1, dragged)
         IN  OuterLoop_early(g, InnerLoop(g, settled, i, i + 1, rnd),
                             i + 1, r, dragged, rnd)

\* lines 86-121 with the forces of the root applied as those of any node
RECURSIVE OuterLoop_apply(_, _, _, _, _, _)
OuterLoop_apply(g, st, i, r, dragged, rnd) ==
    IF i > Len(g.nodes) THEN st
    ELSE OuterLoop_apply(g,
             evaluate_forces(InnerLoop(g, st, i, i + 1, rnd), g.nodes[i], dragged),
             i + 1, r, dragged, rnd)

\* lines 86-121: the outer loop; the forces of n1 are dropped or applied
RECURSIVE OuterLoop(_, _, _, _, _, _)
OuterLoop(g, st, i, r, dragged, rnd) ==
    IF i > Len(g.nodes) THEN st
    ELSE LET n1 == g.nodes[i]
             paired == InnerLoop(g, st, i, i + 1, rnd)
         IN  OuterLoop(g,
                 IF n1 = r THEN clear_forces(paired, n1)
                 ELSE evaluate_forces(paired, n1, dragged),
                 i + 1, r, dragged, rnd)

\* Canvas.update with the tree and gravity pass made whenever there is a root
update_rooted(g, st, r, layers, enabled, dragged, rnd) ==
    LET pulled == IF r # 0
                  THEN [st EXCEPT !.forces =
                           GravityForces(g, TreeForces(@, st.position, layers, 1),
                                         r, 1)]
                  ELSE st
    IN  IF enabled THEN OuterLoop(g, pulled, 1, r, dragged, rnd) ELSE pulled

\* Canvas.update, lines 63-121 (the centring and the repaint that follow
\* move the view, not the nodes)
update(g, st, r, layers, enabled, dragged, rnd) ==
    LET pulled == IF r # 0 /\ enabled
                  THEN [st EXCEPT !.forces =
                           GravityForces(g, TreeForces(@, st.position, layers, 1),
                                         r, 1)]
                  ELSE st
    IN  IF enabled THEN OuterLoop(g, pulled, 1, r, dragged, rnd) ELSE pulled

\* the pairs that draw a random vector: weakly connected, one on the other
NudgedPairs ==
    {e \in SeqToSet(nodes) \X SeqToSet(nodes) :
        /\ \E i, j \in DOMAIN nodes : i < j /\ nodes[i] = e[1] /\ nodes[j] = e[2]
        /\ weakly_connected(Graph, e[1], e[2]) = "true"
        /\ position[e[1]] = position[e[2]]}

\* the timer calls Canvas.update; the runs end with their last tick, so
\* the mouse and the keys below act while a tick is still to come
Update ==
    /\ ticks < MaxTicks
    /\ ticks' = ticks + 1
    /\ \E rnd \in [NudgedPairs -> Nudges] :
       \E r \in {update(Graph, [position |-> position, forces |-> forces],
                        root, distance_from_root, canvas_forces, drag, rnd)} :
          /\ position' = r.position
          /\ forces' = r.forces
    /\ UNCHANGED <<graphVars, last, ops, animVars, textVars,
                   drag, root, distance_from_root, canvas_forces>>

\* mousePressEvent: DrawableNode.start_drag of the node pressed (the nodes
\* selected with it would be dragged along: here one node is dragged at a time)
StartDrag(n) ==
    /\ ticks < MaxTicks
    /\ InGraph(n)
    /\ \A m \in NodeIds : ~drag[m]
    /\ drag' = [drag EXCEPT ![n] = TRUE]
    /\ UNCHANGED <<graphVars, last, ops, animVars, textVars,
                   position, forces, root, distance_from_root, canvas_forces,
                   ticks>>

\* mouseReleaseEvent: DrawableNode.stop_drag
StopDrag(n) ==
    /\ ticks < MaxTicks
    /\ InGraph(n)
    /\ drag[n]
    /\ drag' = [drag EXCEPT ![n] = FALSE]
    /\ UNCHANGED <<graphVars, last, ops, animVars, textVars,
                   position, forces, root, distance_from_root, canvas_forces,
                   ticks>>

\* DrawableGraph.set_root, with its decorator (r = 0: None)
SetRoot(r) ==
    /\ ticks < MaxTicks
    /\ (r = 0 \/ InGraph(r))
    /\ r # root
    /\ root' = r
    /\ distance_from_root'
          \in {recalculate_distance_to_root(Graph, r, ord) :
                  ord \in {o \in Orders : \A n \in NodeIds : InGraph(n) \/ o[n] = n}}
    /\ UNCHANGED <<graphVars, last, ops, animVars, textVars,
                   position, drag, forces, canvas_forces, ticks>>

\* Canvas.set_forces
SetForces(value) ==
    /\ ticks < MaxTicks
    /\ value # canvas_forces
    /\ canvas_forces' = value
    /\ UNCHANGED <<graphVars, last, ops, animVars, textVars,
                   position, drag, forces, root, distance_from_root, ticks>>

\* a set of pairs of nodes as a list, in the order of the pairs
RECURSIVE InOrderPairs(_)
InOrderPairs(E) ==
    IF E = {} THEN <<>>
    ELSE LET e == CHOOSE x \in E :
                     \A y \in E : x[1] < y[1] \/ (x[1] = y[1] /\ x[2] <= y[2])
         IN  <<e>> \o InOrderPairs(E \ {e})

\* where a node may have been put
Grid == {<<0, 0>>, <<0, 1>>}

\* the numbers of nodes of the graphs that are laid out
Sizes == {1, 2, 3}

\* the graph of k nodes after add_vertex of the pairs of the list es
RECURSIVE Linked(_, _)
Linked(k, es) ==
    IF es = <<>> THEN GraphOfNodes(k)
    ELSE add_vertex(Linked(k, Tail(es)), Head(es)[1], Head(es)[2],
                    DefaultWeight)

\* a graph of up to three nodes, each linked or not to the next one; the
\* first node is where nodes are made and the others are put on the grid
ForceInit ==
    /\ \E k \in Sizes :
       \E E \in SUBSET {e \in (1..k) \X (1..k) : e[2] = e[1] + 1} :
          LET g == Linked(k, InOrderPairs(E))
          IN  /\ directed = g.directed
              /\ nodes = g.nodes
              /\ vertices = g.vertices
              /\ adjacent = g.adjacent
              /\ components = g.components
              /\ position \in {p \in [NodeIds -> Grid] :
                                 \A n \in NodeIds \ (2..k) : p[n] = <<0, 0>>}
    /\ last = [op |-> "init", d |-> FALSE, a |-> 0, b |-> 0, rep |-> FALSE]
    /\ ops = 0
    /\ animations = <<>>
    /\ color = [o \in Objects |-> Color_text]
    /\ selected = [o \in Objects |-> FALSE]
    /\ now = 0
    /\ created = 0
    /\ stopped = FALSE
    /\ held = [track |-> FALSE, queued |-> {}, started |-> {}]
    /\ drag = [n \in NodeIds |-> FALSE]
    /\ forces = [n \in NodeIds |-> <<>>]
    /\ root = 0
    /\ distance_from_root = <<>>
    /\ canvas_forces = TRUE
    /\ ticks = 0
    /\ weighted = FALSE
    /\ label = [n \in NodeIds |-> NoLabel]
    /\ file = NoFile
    /\ failed = FALSE
    /\ address = [n \in NodeIds |-> n]

ForceNext ==
    \/ Update
    \/ \E n \in NodeIds : StartDrag(n)
    \/ \E n \in NodeIds : StopDrag(n)
    \/ \E r \in {0} \cup NodeIds : SetRoot(r)
    \/ \E value \in BOOLEAN : SetForces(value)

ForceSpec == ForceInit /\ [][ForceNext]_vars

----------------------------------------------------------------------------
\* The text format (Graph.to_string, Graph.from_string) and the import and
\* export of the canvas.  A text is the list of its non-empty lines, and a
\* line the list of its fields.

\* the numbers that are written as weights
Literals == 0..MaxWeight

\* ast.literal_eval of a field: the number it spells
Parseable(field) == \E w \in Literals : ToString(w) = field
literal_eval(field) == CHOOSE w \in Literals : ToString(w) = field

\* Graph.set_weighted is an assignment; Graph.get_weight, as str() shows it
get_weight(g, n1, n2) ==
    LET I == {i \in DOMAIN g.vertices : VertexEq(g.vertices[i], n1, n2)}
    IN  IF I = {} THEN "None" ELSE ToString(g.vertices[MinOf(I)].weight)

\* id(n): the place of the node object in the order ids of the addresses
Rank(ids, n) == CHOOSE i \in DOMAIN ids : ids[i] = n

\* lines 376-388: the label of the node, a counter for a node without one
Named(lab, node, named) ==
    IF lab[node].some THEN named
    ELSE IF named.added[node] # "" THEN named
    ELSE [counter |-> named.counter + 1,
          added |-> [named.added EXCEPT ![node] = ToString(named.counter + 1)]]

LabelOf(lab, node, named) ==
    IF lab[node].some THEN lab[node].text ELSE named.added[node]

\* lines 390-413: the lines written for the vertex (n1, n2)
VertexLines(g, wt, n1, n2, l1, l2) ==
    (IF is_adjacent_to(g, n1, n2)
     THEN <<<<l1>> \o (IF g.directed THEN <<"->">> ELSE <<>>) \o <<l2>>
            \o (IF wt THEN <<get_weight(g, n1, n2)>> ELSE <<>>)>>
     ELSE <<>>)
    \o
    (IF is_adjacent_to(g, n2, n1) /\ g.directed
     THEN <<<<l1>> \o (IF g.directed THEN <<"<-">> ELSE <<>>) \o <<l2>>
            \o (IF wt THEN <<get_weight(g, n2, n1)>> ELSE <<>>)>>
     ELSE <<>>)

\* lines 367-413: the loop over the vertices
RECURSIVE ToStringLoop(_, _, _, _, _, _, _)
ToStringLoop(g, wt, lab, ids, i, named, out) ==
    IF i > Len(g.vertices) THEN out
    ELSE LET n1 == g.vertices[i].node_from
             n2 == g.vertices[i].node_to
             named1 == Named(lab, n1, named)
             named2 == Named(lab, n2, named1)
         IN  IF ~g.directed /\ Rank(ids, n1) > Rank(ids, n2)
             THEN ToStringLoop(g, wt, lab, ids, i + 1, named, out)
             ELSE ToStringLoop(g, wt, lab, ids, i + 1, named2,
                      out \o VertexLines(g, wt, n1, n2,
                                         LabelOf(lab, n1, named2),
                                         LabelOf(lab, n2, named2)))

\* Graph.to_string
to_string(g, wt, lab, ids) ==
    ToStringLoop(g, wt, lab, ids, 1,
                 [counter |-> 0, added |-> [n \in NodeIds |-> ""]], <<>>)

\* lines 339-346: the node of the name, a new one at its first occurrence
Lookup(names, name) ==
    IF \E n \in DOMAIN names : names[n] = name
    THEN CHOOSE n \in DOMAIN names : names[n] = name
    ELSE 0

NodeOf(acc, name) ==
    IF Lookup(acc.names, name) # 0 THEN acc
    ELSE LET n == Len(acc.names) + 1
         IN  [acc EXCEPT !.names = Append(@, name),
                         !.label[n] = Label(name),
                         !.graph = add_node([@ EXCEPT !.adjacent[n] = {}], n)]

\* the outcome of a parse that raised
ParseError ==
    [error |-> TRUE, built |-> FALSE, graph |-> NewGraph, weighted |-> FALSE,
     names |-> <<>>, label |-> [n \in NodeIds |-> NoLabel]]

\* lines 321-355: one line of the text
ParseLine(acc, parts) ==
    IF ~acc.built /\ Len(parts) < 2 THEN ParseError
    ELSE
    LET isdirected == IF acc.built THEN acc.graph.directed
                      ELSE parts[2] \in {"->", "<-"}
        d == IF isdirected THEN 1 ELSE 0
        isweighted == IF acc.built THEN acc.weighted ELSE Len(parts) = 3 + d
        started == IF acc.built THEN acc
                   ELSE [acc EXCEPT !.built = TRUE,
                                    !.graph = set_directed(NewGraph, isdirected,
                                                           [n \in NodeIds |-> n]),
                                    !.weighted = isweighted]
    IN  IF Len(parts) < 2 + d THEN ParseError
        ELSE IF isweighted /\ Len(parts) < 3 + d THEN ParseError
        ELSE IF isweighted /\ ~Parseable(parts[3 + d]) THEN ParseError
        ELSE LET weight == IF ~isweighted THEN 0 ELSE literal_eval(parts[3 + d])
                 both == NodeOf(NodeOf(started, parts[1]), parts[2 + d])
                 a == Lookup(both.names, parts[1])
                 b == Lookup(both.names, parts[2 + d])
                 n1 == IF parts[2] = "<-" THEN b ELSE a
                 n2 == IF parts[2] = "<-" THEN a ELSE b
             IN  [both EXCEPT !.graph = add_vertex(@, n1, n2, weight)]

\* lines 320-355 with a line that cannot be read left out
RECURSIVE FromStringLoop_skip(_, _, _)
FromStringLoop_skip(lines, i, acc) ==
    IF i > Len(lines) THEN acc
    ELSE LET r == ParseLine(acc, lines[i])
         IN  FromStringLoop_skip(lines, i + 1, IF r.error THEN acc ELSE r)

\* lines 320-355: the loop over the lines; an exception leaves it
RECURSIVE FromStringLoop(_, _, _)
FromStringLoop(lines, i, acc) ==
    IF i > Len(lines) THEN acc
    ELSE LET r == ParseLine(acc, lines[i])
         IN  IF r.error THEN r ELSE FromStringLoop(lines, i + 1, r)

\* Graph.from_string: built is FALSE when None is returned
from_string(lines) ==
    FromStringLoop(lines, 1,
        [error |-> FALSE, built |-> FALSE, graph |-> NewGraph,
         weighted |-> FALSE, names |-> <<>>,
         label |-> [n \in NodeIds |-> NoLabel]])

\* Vector(3, 3).rotated(i * (2 * pi / n)), to the nearest whole coordinates
Circle(i, n) ==
    CASE n = 1 -> <<3, 3>>
      [] n = 2 -> <<<<3, 3>>, <<-3, -3>>>>[i + 1]
      [] n = 3 -> <<<<3, 3>>, <<-4, 1>>, <<1, -4>>>>[i + 1]
      [] n = 4 -> <<<<3, 3>>, <<-3, 3>>, <<-3, -3>>, <<3, -3>>>>[i + 1]

\* the orders in which the addresses of the nodes of a new graph may come;
\* to_string compares them in an undirected graph only, so one order stands
\* for all of them in a directed one
Addresses(ns, d) ==
    IF d THEN {[n \in NodeIds |-> n]}
    ELSE {o \in Orders : \A n \in NodeIds : n \in SeqToSet(ns) \/ o[n] = n}

\* Canvas.export_graph: the text is written to the file
ExportGraph ==
    /\ file' = [lines |-> to_string(Graph, weighted, label, address),
                edited |-> FALSE]
    /\ failed' = FALSE
    /\ UNCHANGED <<graphVars, last, ops, animVars, forceVars, weighted, label,
                   address>>

\* Canvas.import_graph: the graph of the canvas is replaced when the text
\* was read and held a line; the error box is shown when an exception was
\* raised, by from_string or by the average of no position
ImportGraph ==
    \E r \in {from_string(file.lines)} :
    \E replaced \in {~r.error /\ r.built} :
        /\ failed' = (r.error \/ (~r.built /\ nodes = <<>>))
        /\ SetGraph(IF replaced THEN r.graph ELSE Graph)
        /\ weighted' = IF replaced THEN r.weighted ELSE weighted
        /\ label' = IF replaced THEN r.label ELSE label
        /\ IF replaced
           THEN address' \in Addresses(r.graph.nodes, r.graph.directed)
           ELSE address' = address
        /\ position' = IF replaced
                       THEN [n \in NodeIds |->
                                IF n \in SeqToSet(r.graph.nodes)
                                THEN Circle(Rank(r.graph.nodes, n) - 1,
                                            Len(r.graph.nodes))
                                ELSE <<0, 0>>]
                       ELSE position
        /\ animations' = IF replaced THEN <<>> ELSE animations
        /\ color' = IF replaced THEN [o \in Objects |-> Color_text] ELSE color
        /\ selected' = IF replaced THEN [o \in Objects |-> FALSE] ELSE selected
        /\ drag' = IF replaced THEN [n \in NodeIds |-> FALSE] ELSE drag
        /\ forces' = IF replaced THEN [n \in NodeIds |-> <<>>] ELSE forces
        /\ root' = IF replaced THEN 0 ELSE root
        /\ distance_from_root' = IF replaced THEN <<>> ELSE distance_from_root
        /\ UNCHANGED <<last, ops, now, created, stopped, held, canvas_forces,
                       ticks, file>>

\* the file is edited outside the program: the last field of a line is cut
CutField(i) ==
    /\ ~file.edited
    /\ i \in DOMAIN file.lines
    /\ file' = [lines |-> [file.lines EXCEPT
                              ![i] = SubSeq(@, 1, Len(@) - 1)],
                edited |-> TRUE]
    /\ UNCHANGED <<graphVars, last, ops, animVars, forceVars, weighted, label,
                   failed, address>>

\* the file is edited outside the program: the weight of a line is replaced
\* by a field that is no number
SpoilWeight(i) ==
    /\ ~file.edited
    /\ i \in DOMAIN file.lines
    /\ Len(file.lines[i]) = 3 + (IF file.lines[i][2] \in {"->", "<-"} THEN 1 ELSE 0)
    /\ file' = [lines |-> [file.lines EXCEPT
                              ![i] = [@ EXCEPT ![Len(@)] = "x"]],
                edited |-> TRUE]
    /\ UNCHANGED <<graphVars, last, ops, animVars, forceVars, weighted, label,
                   failed, address>>

\* the labels the nodes are given, by their number
Names == <<"a", "b", "c">>

\* the pairs that may be linked in the graphs that get exported
Links(k, d) ==
    {e \in (1..k) \X (1..k) :
        e[2] = e[1] + 1 \/ (d /\ e = <<2, 1>>)}

\* the graph g after add_vertex of the pairs of the list es with the
\* weights wf gives them
RECURSIVE Weighed(_, _, _)
Weighed(g, es, wf) ==
    IF es = <<>> THEN g
    ELSE add_vertex(Weighed(g, Tail(es), wf), Head(es)[1], Head(es)[2],
                    wf[Head(es)])

\* a graph of up to three nodes, labelled or not, with some of the links,
\* directed or not, weighted or not; no file yet
TextInit ==
    /\ \E k \in Sizes, d \in BOOLEAN :
       \E E \in SUBSET Links(k, d) :
       \E wf \in [E -> Weights] :
          LET g == Weighed(set_directed(GraphOfNodes(k), d, [n \in NodeIds |-> n]),
                           InOrderPairs(E), wf)
          IN  /\ directed = g.directed
              /\ nodes = g.nodes
              /\ vertices = g.vertices
              /\ adjacent = g.adjacent
              /\ components = g.components
              /\ label \in {[n \in NodeIds |->
                               IF n \in L THEN Label(Names[n]) ELSE NoLabel] :
                            L \in SUBSET (1..k)}
    /\ weighted \in BOOLEAN
    /\ last = [op |-> "init", d |-> FALSE, a |-> 0, b |-> 0, rep |-> FALSE]
    /\ ops = 0
    /\ animations = <<>>
    /\ color = [o \in Objects |-> Color_text]
    /\ selected = [o \in Objects |-> FALSE]
    /\ now = 0
    /\ created = 0
    /\ stopped = FALSE
    /\ held = [track |-> FALSE, queued |-> {}, started |-> {}]
    /\ position = [n \in NodeIds |-> <<0, 0>>]
    /\ drag = [n \in NodeIds |-> FALSE]
    /\ forces = [n \in NodeIds |-> <<>>]
    /\ root = 0
    /\ distance_from_root = <<>>
    /\ canvas_forces = TRUE
    /\ ticks = 0
    /\ file = NoFile
    /\ failed = FALSE
    /\ address \in Addresses(nodes, directed)

TextNext ==
    \/ ExportGraph
    \/ ImportGraph
    \/ \E i \in 1..(MaxNodes * MaxNodes) : CutField(i)
    \/ \E i \in 1..(MaxNodes * MaxNodes) : SpoilWeight(i)

TextSpec == TextInit /\ [][TextNext]_vars

----------------------------------------------------------------------------
\* The root and its BFS layers under the mutations of DrawableGraph: every
\* one of add_node, remove_node, add_vertex, remove_vertex and set_root is
\* wrapped by recalculate_distance_to_root.

MaxMutations == 1

\* a mutation uses one unit of the run's budget and is recorded with the
\* node it was given and the root of the time; the canvas is left alone
Mutation(name, a, b) ==
    /\ ops < MaxMutations
    /\ ops' = ops + 1
    /\ last' = Op(name, a, b)
    /\ UNCHANGED <<animVars, textVars, position, drag, forces, canvas_forces,
                   ticks>>

\* the graph g and the root r are stored and the layers rebuilt
Rebuilt(g, r) ==
    \E built \in {g} :
       /\ SetGraph(built)
       /\ root' = r
       /\ distance_from_root'
             \in {recalculate_distance_to_root(built, r, ord) :
                     ord \in {o \in Orders :
                                \A n \in NodeIds :
                                   n \in SeqToSet(built.nodes) \/ o[n] = n}}

\* DrawableGraph.add_node
DrawableAddNode(n) ==
    /\ ~InGraph(n)
    /\ \A m \in NodeIds : m < n => InGraph(m)
    /\ Mutation("add_node", n, root)
    /\ Rebuilt(add_node([Graph EXCEPT !.adjacent[n] = {}], n), root)

\* DrawableGraph.remove_node without the test for the root
DrawableRemoveNode_keep(n) ==
    /\ InGraph(n)
    /\ Mutation("remove_node", n, root)
    /\ Rebuilt(remove_node(Graph, n), root)

\* DrawableGraph.remove_node: the root is unset when it is the node removed
DrawableRemoveNode(n) ==
    /\ InGraph(n)
    /\ Mutation("remove_node", n, root)
    /\ Rebuilt(remove_node(Graph, n), IF n = root THEN 0 ELSE root)

\* DrawableGraph.add_vertex
DrawableAddVertex(n1, n2) ==
    /\ InGraph(n1) /\ InGraph(n2)
    /\ Mutation("add_vertex", n1, n2)
    /\ Rebuilt(add_vertex(Graph, n1, n2, DefaultWeight), root)

\* DrawableGraph.remove_vertex
DrawableRemoveVertex(n1, n2) ==
    /\ InGraph(n1) /\ InGraph(n2)
    /\ Mutation("remove_vertex", n1, n2)
    /\ Rebuilt(remove_vertex(Graph, n1, n2), root)

\* DrawableGraph.set_root as one of the counted mutations (r = 0: None)
DrawableSetRoot(r) ==
    /\ r = 0 \/ InGraph(r)
    /\ r # root
    /\ Mutation("set_root", r, root)
    /\ Rebuilt(Graph, r)

\* the pairs that may be linked in the graphs that get a root: every pair
\* of an undirected graph; a loop, a pair linked both ways and one more
\* pair of a directed one
RootLinks(k, d) ==
    {e \in (1..k) \X (1..k) :
        IF d THEN e \in {<<1, 1>>, <<1, 2>>, <<2, 1>>, <<2, 3>>}
        ELSE e[1] < e[2]}

\* a graph of up to three nodes, directed or not, with some of the links,
\* and a root or none, with the layers as set_root builds them
RootInit ==
    /\ \E k \in Sizes, d \in BOOLEAN :
       \E E \in SUBSET RootLinks(k, d) :
       \E r \in 0..k :
       \E g \in {Weighed(set_directed(GraphOfNodes(k), d, [n \in NodeIds |-> n]),
                          InOrderPairs(E), [e \in E |-> DefaultWeight])} :
              /\ directed = g.directed
              /\ nodes = g.nodes
              /\ vertices = g.vertices
              /\ adjacent = g.adjacent
              /\ components = g.components
              /\ root = r
              /\ \E ord \in {o \in Orders : \A n \in NodeIds : n <= k \/ o[n] = n} :
                    distance_from_root = recalculate_distance_to_root(g, r, ord)
    /\ last = [op |-> "init", d |-> FALSE, a |-> 0, b |-> 0, rep |-> FALSE]
    /\ ops = 0
    /\ animations = <<>>
    /\ color = [o \in Objects |-> Color_text]
    /\ selected = [o \in Objects |-> FALSE]
    /\ now = 0
    /\ created = 0
    /\ stopped = FALSE
    /\ held = [track |-> FALSE, queued |-> {}, started |-> {}]
    /\ position = [n \in NodeIds |-> <<0, 0>>]
    /\ drag = [n \in NodeIds |-> FALSE]
    /\ forces = [n \in NodeIds |-> <<>>]
    /\ canvas_forces = TRUE
    /\ ticks = 0
    /\ weighted = FALSE
    /\ label = [n \in NodeIds |-> NoLabel]
    /\ file = NoFile
    /\ failed = FALSE
    /\ address = [n \in NodeIds |-> n]

RootNext ==
    \/ \E n \in NodeIds : DrawableAddNode(n)
    \/ \E n \in NodeIds : DrawableRemoveNode(n)
    \/ \E n1, n2 \in NodeIds : DrawableAddVertex(n1, n2)
    \/ \E n1, n2 \in NodeIds : DrawableRemoveVertex(n1, n2)
    \/ \E r \in {0} \cup NodeIds : DrawableSetRoot(r)

RootSpec == RootInit /\ [][RootNext]_vars

----------------------------------------------------------------------------
\* The labels of the nodes: Node(label=...) and Node.set_label

\* the texts a label is made of; the line edit of the canvas gives the
\* empty text when it is cleared
Texts == {"", "a", "b", "c"}

\* what is passed as a label: None or a text
LabelArgs == {NoLabel} \cup {Label(t) : t \in Texts}

\* Node.__init__: the label is stored as it is given
NodeLabel(lab) == lab

\* Node.set_label: an empty text is turned into None
set_label(lab) == IF lab.some /\ lab.text = "" THEN NoLabel ELSE lab

\* a node is made with the label lab and added to the graph
CreateNode(n, lab) ==
    /\ ~InGraph(n)
    /\ \A m \in NodeIds : m < n => InGraph(m)
    /\ SetGraph(add_node([Graph EXCEPT !.adjacent[n] = {}], n))
    /\ label' = [label EXCEPT ![n] = NodeLabel(lab)]
    /\ last' = Op("node", n, 0)
    /\ UNCHANGED <<ops, animVars, forceVars, weighted, file, failed, address>>

\* the label of a node of the graph is set
SetLabel(n, lab) ==
    /\ InGraph(n)
    /\ label' = [label EXCEPT ![n] = set_label(lab)]
    /\ last' = Op("set_label", n, 0)
    /\ UNCHANGED <<graphVars, ops, animVars, forceVars, weighted, file, failed,
                   address>>

LabelNext ==
    \/ \E n \in NodeIds, lab \in LabelArgs : CreateNode(n, lab)
    \/ \E n \in NodeIds, lab \in LabelArgs : SetLabel(n, lab)

LabelSpec == Init /\ [][LabelNext]_vars

----------------------------------------------------------------------------
\* Node objects that are kept by the caller: a node removed from the graph
\* is given to add_node again

\* Graph.add_node of a node object that is not in the graph, new or removed
\* before: the object comes with the set of adjacent vertices it has
ReAddNode(n) ==
    /\ ~InGraph(n)
    /\ Step("add_node", n, n)
    /\ SetGraph(add_node(Graph, n))

ReuseNext ==
    \/ \E n \in NodeIds : AddNode(n)
    \/ \E n \in NodeIds : ReAddNode(n)
    \/ \E n \in NodeIds : RemoveNode(n)
    \/ \E n1, n2 \in NodeIds : AddVertex(n1, n2, DefaultWeight)
    \/ \E n1, n2 \in NodeIds : RemoveVertex(n1, n2)
    \/ \E n1, n2 \in NodeIds : ToggleVertex(n1, n2)
    \/ \E d \in BOOLEAN : SetDirected(d)

ReuseSpec == Init /\ [][ReuseNext]_vars

----------------------------------------------------------------------------
\* The engine left to run: the colour changes have all been asked for, ticks
\* keep coming, the clock runs, and the animations are paused and resumed at
\* will; nodes are removed from the graph meanwhile.

\* the durations asked for, in units of time
LiveDurations == {1, 2}

\* the reading of a timer from which has_finished tells no difference
Longest == (CHOOSE d \in LiveDurations : \A e \in LiveDurations : e <= d) + 1

\* the queues of one to MaxQueued requests
Requests ==
    UNION {[1..k -> Targets \X LiveDurations \X BOOLEAN] : k \in 1..MaxQueued}

\* the queue after change_color of the requests, the n-th for the colour n
RECURSIVE Requested(_, _, _)
Requested(reqs, col, k) ==
    IF k = 0 THEN <<>>
    ELSE change_color(Requested(reqs, col, k - 1), col, reqs[k][1], Color(k),
                      k, reqs[k][2], reqs[k][3])

LiveInit ==
    /\ directed = GraphOfNodes(Cardinality(Targets)).directed
    /\ nodes = GraphOfNodes(Cardinality(Targets)).nodes
    /\ vertices = GraphOfNodes(Cardinality(Targets)).vertices
    /\ adjacent = GraphOfNodes(Cardinality(Targets)).adjacent
    /\ components = GraphOfNodes(Cardinality(Targets)).components
    /\ last = [op |-> "init", d |-> FALSE, a |-> 0, b |-> 0, rep |-> FALSE]
    /\ ops = 0
    /\ color = [o \in Objects |-> Color_text]
    /\ \E reqs \in Requests :
          /\ animations = Requested(reqs, color, Len(reqs))
          /\ created = Len(reqs)
    /\ selected = [o \in Objects |-> FALSE]
    /\ now = 0
    /\ stopped = FALSE
    /\ held = [track |-> FALSE, queued |-> {}, started |-> {}]
    /\ CanvasInit

\* a unit of time passes: every timer that was started reads one more, up
\* to the reading from which nothing changes
PassTime ==
    /\ Engine
    /\ animations' =
          [i \in DOMAIN animations |->
              IF animations[i].a.started
                   /\ elapsed(animations[i].a, now) < Longest
              THEN [animations[i] EXCEPT !.a.timer = @ - 1]
              ELSE animations[i]]
    /\ stopped' = FALSE
    /\ UNCHANGED <<color, selected, now, created, held>>

\* a unit of time passes while an animation plays
PlayTime ==
    /\ \E i \in DOMAIN animations :
          animations[i].a.started /\ ~animations[i].a.paused
    /\ PassTime

LiveNext ==
    \/ Draw
    \/ PauseAnimations
    \/ ResumeAnimations
    \/ PassTime
    \/ \E n \in NodeIds : RemoveNode(n)

\* ticks keep coming, the clock runs while animations play, and a pause is
\* followed by a resume
LiveSpec ==
    /\ LiveInit
    /\ [][LiveNext]_vars
    /\ SF_vars(Draw)
    /\ SF_vars(PlayTime)
    /\ WF_vars(ResumeAnimations)

----------------------------------------------------------------------------
\* what the claims speak of

NodeSet == SeqToSet(nodes)

\* the edges of a vertex list, with and without their weights
EdgeMap(vs) == {<<vs[i].node_from, vs[i].node_to, vs[i].weight>> : i \in DOMAIN vs}
EdgePairs(vs) == {<<vs[i].node_from, vs[i].node_to>> : i \in DOMAIN vs}
HasEdge(vs, a, b) == <<a, b>> \in EdgePairs(vs)
WeightsOf(vs, a, b) ==
    {vs[i].weight : i \in {k \in DOMAIN vs : VertexEq(vs[k], a, b)}}

\* the nodes joined to a node of S by a vertex, in either direction
Around(vs, S) ==
    S \cup {vs[i].node_to : i \in {k \in DOMAIN vs : vs[k].node_from \in S}}
      \cup {vs[i].node_from : i \in {k \in DOMAIN vs : vs[k].node_to \in S}}

RECURSIVE ReachFrom(_, _)
ReachFrom(vs, S) ==
    LET T == Around(vs, S) IN IF T = S THEN S ELSE ReachFrom(vs, T)

PathBetween(a, b) == b \in ReachFrom(vertices, {a})

\* C1: whenever the graph is undirected, every edge (a,b) of the edge list
\* has a reverse edge (b,a) of the same weight, and no edge is a loop.
C1_UndirectedSymmetric ==
    ~directed =>
        \A i \in DOMAIN vertices :
            /\ ~is_loop(vertices[i])
            /\ \E j \in DOMAIN vertices :
                  /\ VertexEq(vertices[j], vertices[i].node_to,
                              vertices[i].node_from)
                  /\ vertices[j].weight = vertices[i].weight

\* an undirected graph whose edge was just re-weighted away from the default
C1_Witness ==
    /\ ~directed
    /\ last.op = "set_weight"
    /\ \E i \in DOMAIN vertices : vertices[i].weight # DefaultWeight
    /\ \E i \in DOMAIN vertices : vertices[i].weight = DefaultWeight

\* C2: after every mutation the component list is an exact partition of the
\* node set: every node is in exactly one set, and every set holds nodes of
\* the graph only.
C2_ComponentsPartition ==
    last.op # "init" =>
        /\ \A n \in NodeSet :
              Cardinality({i \in DOMAIN components : n \in components[i]}) = 1
        /\ \A i \in DOMAIN components : components[i] \subseteq NodeSet
        /\ \A i, j \in DOMAIN components :
              i # j => components[i] \cap components[j] = {}

\* after a node was removed: two nodes in one set, or two sets
C2_Witness ==
    /\ last.op = "remove_node"
    /\ Len(nodes) = 2
    /\ vertices # <<>>
    /\ Len(components) = 1

\* C3: after every mutation, weakly_connected(a, b) is true exactly when a
\* path joins a and b in the current edge list, direction ignored.
C3_WeaklyConnectedIsPath ==
    last.op # "init" =>
        \A a, b \in NodeSet :
            (weakly_connected(Graph, a, b) = "true") <=> PathBetween(a, b)

\* a directed graph: a and b joined only by b -> a, c apart
C3_Witness ==
    /\ directed
    /\ Len(nodes) = 3
    /\ \E a, b, c \in NodeSet :
          /\ HasEdge(vertices, b, a) /\ ~HasEdge(vertices, a, b)
          /\ weakly_connected(Graph, a, b) = "true"
          /\ weakly_connected(Graph, a, c) = "false"

\* the edges the two toggles of (a, b) remove and add again
Toggled(a, b) == {<<a, b>>} \cup (IF directed THEN {} ELSE {<<b, a>>})

\* C4 as stated: toggle_vertex(a, b) twice restores the edges and every
\* weight.  (The step is the first toggle; the second is applied to its
\* result.)
C4_ToggleTwiceRestoresAll ==
    [][last'.op = "toggle_vertex" =>
          EdgeMap(toggle_vertex(Graph', last'.a, last'.b).vertices)
              = EdgeMap(vertices)]_vars

\* the edges pre are restored in post, the weight of the pairs T aside
RestoredBut(pre, post, T) ==
    /\ EdgePairs(post) = EdgePairs(pre)
    /\ Len(post) = Len(pre)
    /\ \A i \in DOMAIN post :
          IF <<post[i].node_from, post[i].node_to>> \in T
          THEN post[i].weight = DefaultWeight
          ELSE \E j \in DOMAIN pre : pre[j] = post[i]

\* C4 as amended: toggle_vertex(a, b) twice restores the same set of edges;
\* every edge other than a -> b (and b -> a when undirected) keeps its
\* weight, and those, if they existed, end with the default weight.
C4_ToggleTwiceRestoresPresence ==
    [][last'.op = "toggle_vertex" =>
          RestoredBut(vertices,
                      toggle_vertex(Graph', last'.a, last'.b).vertices,
                      Toggled(last'.a, last'.b))]_vars

\* two toggles of the same pair were made and the edge is there
C4_Witness ==
    /\ last.op = "toggle_vertex"
    /\ last.rep
    /\ HasEdge(vertices, last.a, last.b)

\* what set_directed(false) makes of the edges pre of a directed graph
ConvertedFrom(pre, post) ==
    /\ \A i \in DOMAIN post : ~is_loop(post[i])
    /\ \A i \in DOMAIN pre :
          LET a == pre[i].node_from
              b == pre[i].node_to
          IN  a # b =>
                /\ HasEdge(post, a, b) /\ HasEdge(post, b, a)
                /\ WeightsOf(post, a, b) = WeightsOf(post, b, a)
                /\ Cardinality(WeightsOf(post, a, b)) = 1
                /\ ~HasEdge(pre, b, a) =>
                      WeightsOf(post, a, b) = {pre[i].weight}

\* C5: set_directed(false) on a directed graph gives every non-loop edge
\* a -> b both directions, with a -> b's weight where only a -> b existed,
\* with equal weights where both existed, and removes every loop.
C5_SetUndirectedMirrors ==
    [][(last'.op = "set_directed" /\ directed /\ ~directed') =>
          ConvertedFrom(vertices, vertices')]_vars

\* a directed graph was made undirected and an edge carries another weight
\* than the default in both directions
C5_Witness ==
    /\ last.op = "set_directed" /\ last.d /\ ~directed
    /\ \E i, j \in DOMAIN vertices :
          /\ VertexEq(vertices[j], vertices[i].node_to, vertices[i].node_from)
          /\ vertices[i].weight # DefaultWeight
          /\ vertices[j].weight # DefaultWeight

\* in the directed graph g each vertex is removed and re-weighted alone
IndependentDirections(g) ==
    \A i \in DOMAIN g.vertices :
        /\ remove_vertex(g, g.vertices[i].node_from,
                         g.vertices[i].node_to).vertices
              = RemoveAt(g.vertices, i)
        /\ \A w \in Weights :
              set_weight(g, i, w).vertices
                  = [g.vertices EXCEPT ![i].weight = w]

\* C6: set_directed(true) on an undirected graph changes the directed flag
\* only (nodes, edges, weights, adjacency and components stay), and
\* afterwards the two directions of a pair are removed and re-weighted
\* independently.
C6_SetDirectedIsFlagFlip ==
    [][(last'.op = "set_directed" /\ ~directed /\ directed') =>
          /\ nodes' = nodes
          /\ vertices' = vertices
          /\ adjacent' = adjacent
          /\ components' = components
          /\ IndependentDirections(Graph')]_vars

\* an undirected graph with an edge was made directed
C6_Witness ==
    /\ last.op = "set_directed" /\ ~last.d /\ directed
    /\ \E i \in DOMAIN vertices : vertices[i].weight # DefaultWeight

----------------------------------------------------------------------------
\* what the claims about the animation engine speak of

\* the places of the animation object id in the queue q
PlacesOf(q, id) == {j \in DOMAIN q : q[j].a.id = id}

\* the entries of q at the front that are all flagged parallel
ParallelRun(q) == {i \in DOMAIN q : \A j \in 1..i : q[j].a.parallel}

\* the queued entries of q for the object obj
QueuedFor(q, obj) == {i \in DOMAIN q : q[i].obj = obj}

MaxOf(S) == CHOOSE x \in S : \A y \in S : y <= x

\* C7: a non-parallel animation that has started is at the front of the
\* queue: no entry is ahead of it, so a non-parallel entry is never started
\* while an entry ahead of it is still queued
C7_NonParallelStartsAtFront ==
    \A i \in DOMAIN animations :
        (animations[i].a.started /\ ~animations[i].a.parallel) => i = 1

\* of three animations queued, the first is gone, the second, non-parallel,
\* has started and the third, non-parallel, waits behind it
C7_Witness ==
    /\ created = 3 /\ Len(animations) = 2
    /\ animations[1].a.id = 2 /\ animations[2].a.id = 3
    /\ ~animations[1].a.parallel /\ animations[1].a.started
    /\ ~animations[2].a.parallel /\ ~animations[2].a.started

\* change_color has appended an animation for obj that starts from the end
\* colour of the last entry queued for obj, or from obj's colour if none is
Chained(obj) ==
    /\ Len(animations') = Len(animations) + 1
    /\ animations'[Len(animations')].obj = obj
    /\ animations'[Len(animations')].a.color_from =
           IF QueuedFor(animations, obj) = {} THEN color[obj]
           ELSE animations[MaxOf(QueuedFor(animations, obj))].a.color_to

\* two entries queued for one object with none for it in between: the later
\* one starts from the colour the earlier one ends with
ChainHolds ==
    \A i, j \in DOMAIN animations :
        ( /\ i < j
          /\ animations[i].obj = animations[j].obj
          /\ \A k \in (i + 1)..(j - 1) : animations[k].obj # animations[i].obj )
        => animations[j].a.color_from = animations[i].a.color_to

\* C8: change_color appends an animation whose start colour is the end colour
\* of the most recently queued animation for the same object that is still in
\* the queue, or the object's colour if none is; hence in every state
\* consecutive queue entries for one object chain
C8_ColorsChain ==
    /\ [][\A obj \in Targets, duration \in Durations, parallel \in BOOLEAN :
            ChangeColor(obj, duration, parallel) => Chained(obj)]_vars
    /\ []ChainHolds

\* three animations queued for one object, the first of them running
C8_Witness ==
    /\ Len(animations) = 3
    /\ animations[1].a.started
    /\ \A i \in DOMAIN animations : animations[i].obj = animations[1].obj

\* a tick on a queue with a run of parallel entries at the front, none of
\* them started, leaves every entry of the run queued and started
RunStartsTogether ==
    (\A i \in ParallelRun(animations) : ~animations[i].a.started)
    => \A i \in ParallelRun(animations) :
           /\ PlacesOf(animations', animations[i].a.id) # {}
           /\ \A j \in PlacesOf(animations', animations[i].a.id) :
                  animations'[j].a.started

\* a non-parallel entry with an entry ahead of it is not started by the step
HeldBehind ==
    \A i \in DOMAIN animations :
        (i > 1 /\ ~animations[i].a.parallel /\ ~animations[i].a.started)
        => \A j \in PlacesOf(animations', animations[i].a.id) :
               ~animations'[j].a.started

\* C9: one tick starts together all the entries of a run of parallel entries
\* at the front of the queue that have not started, and a non-parallel entry
\* queued after the run is not started while an entry is ahead of it
C9_ParallelRunStartsTogether ==
    [][(Draw => RunStartsTogether) /\ HeldBehind]_vars

\* a run of two parallel entries started at the same time, the shorter one
\* finished but still queued behind the longer one, and a non-parallel
\* entry waiting behind the run
C9_Witness ==
    /\ Len(animations) = 3
    /\ animations[1].a.parallel /\ animations[1].a.started
    /\ animations[2].a.parallel /\ animations[2].a.started
    /\ animations[1].a.timer = animations[2].a.timer
    /\ ~has_finished(animations[1].a, now)
    /\ has_finished(animations[2].a, now)
    /\ ~animations[3].a.parallel /\ ~animations[3].a.started

\* C10: the time an animation that has started reports does not decrease,
\* whatever is done in the step: time passing, a pause or a resume
C10_ElapsedNeverDecreases ==
    [][\A i \in DOMAIN animations :
         animations[i].a.started =>
            \A j \in PlacesOf(animations', animations[i].a.id) :
               call_time(animations'[j].a, now')
                  >= call_time(animations[i].a, now)]_vars

\* the step leaves in the queue, as it is, every animation that was queued at
\* the last call of pause_animations: not started, not removed, and if it
\* has started the time it reports is the same
HeldUntouched ==
    \A i \in DOMAIN animations :
        animations[i].a.id \in held.queued =>
            \E j \in DOMAIN animations' :
                /\ animations'[j].a = animations[i].a
                /\ animations[i].a.started =>
                       call_time(animations'[j].a, now')
                          = call_time(animations[i].a, now)

\* C11 as claimed: after pause_animations and until resume_animations or
\* clear_animations, no tick and no passing of time starts, advances or
\* removes an entry that was in the queue at the call, started or not
C11_PauseHoldsEveryEntry ==
    [][(Draw \/ AdvanceTime) => HeldUntouched]_vars

\* C11: if an entry had started when pause_animations was called (the front
\* entry then had), then until resume_animations or clear_animations no tick
\* and no passing of time starts, advances or removes an entry that was in
\* the queue at the call
C11_PauseHoldsBehindStarted ==
    [][((Draw \/ AdvanceTime) /\ held.started # {}) => HeldUntouched]_vars

\* paused with the front entry started and another entry waiting behind it,
\* and since then more time has passed than the front entry lasts
C11_Witness ==
    /\ Len(animations) >= 2
    /\ animations[1].a.id \in held.started
    /\ animations[2].a.id \in held.queued \ held.started
    /\ animations[1].a.paused
    /\ now - animations[1].a.timer > animations[1].a.duration
    /\ ~animations[2].a.started

----------------------------------------------------------------------------
\* the frame of the graph's operations

\* the step leaves the nodes, the vertices with their weights, the
\* adjacency and the partition into components as they are
SameGraph ==
    /\ nodes' = nodes
    /\ vertices' = vertices
    /\ adjacent' = adjacent
    /\ SeqToSet(components') = SeqToSet(components)

\* C13: add_vertex of an edge that is in the edge list already (whatever
\* the weight), add_vertex of a loop on an undirected graph, and
\* remove_vertex of an edge that is not in the edge list leave the node
\* list, the edge list, every weight and the component partition unchanged
C13_NoOpsChangeNothing ==
    [][/\ last'.op = "add_vertex" =>
            \A e \in EdgePairs(vertices)
                     \cup {<<n, n>> : n \in {m \in NodeSet : ~directed}} :
               SameGraph \/ ~\E w \in Weights : AddVertex(e[1], e[2], w)
       /\ last'.op = "remove_vertex" =>
            \A e \in (NodeSet \X NodeSet) \ EdgePairs(vertices) :
               SameGraph \/ ~RemoveVertex(e[1], e[2])]_vars

\* add_vertex was called on an undirected graph that has nodes and, after
\* it, still no vertex: it asked for a loop
C13_Witness ==
    /\ last.op = "add_vertex" /\ ~last.d
    /\ nodes # <<>> /\ vertices = <<>>

\* C15: after remove_node(n), n is not in the node list, no vertex of the
\* edge list has n as an endpoint, no node of the graph has n as adjacent,
\* and the vertices between the other nodes are as they were
C15_RemoveNodeCascades ==
    [][\A n \in NodeIds :
         (last'.op = "remove_node" /\ RemoveNode(n)) =>
            /\ n \notin SeqToSet(nodes')
            /\ \A i \in DOMAIN vertices' :
                  vertices'[i].node_from # n /\ vertices'[i].node_to # n
            /\ \A m \in SeqToSet(nodes') : n \notin adjacent'[m]
            /\ vertices' = SelectSeq(vertices, LAMBDA v :
                               v.node_from # n /\ v.node_to # n)]_vars

\* a node that had vertices leaving it was removed (it keeps its own
\* adjacency), and vertices between other nodes are left
C15_Witness ==
    /\ last.op = "remove_node"
    /\ \E n \in NodeIds \ NodeSet : adjacent[n] # {}
    /\ vertices # <<>>

\* C20: reorient reverses the vertices of the pairs of distinct nodes joined
\* in exactly one direction, and leaves as they are the pairs joined in both
\* directions or in none, and the loops
C20_ReorientReverses ==
    [][last'.op = "reorient" =>
         \A a, b \in NodeSet :
            IF a # b /\ (HasEdge(vertices, a, b) # HasEdge(vertices, b, a))
            THEN HasEdge(vertices', a, b) = HasEdge(vertices, b, a)
            ELSE WeightsOf(vertices', a, b) = WeightsOf(vertices, a, b)]_vars

\* reorient was called on a directed graph and there is a vertex in one
\* direction only, and a loop
C20_Witness ==
    /\ last.op = "reorient" /\ last.d
    /\ \E a, b \in NodeSet :
          a # b /\ HasEdge(vertices, a, b) /\ ~HasEdge(vertices, b, a)
    /\ \E c \in NodeSet : HasEdge(vertices, c, c)

----------------------------------------------------------------------------
\* the notification and the controls of the animation engine

\* C18: a tick calls animation_stopped exactly when the queue has entries at
\* the start of the tick and none at its end
C18_StoppedSignalledOnDrain ==
    [][Draw => (stopped' <=> (Len(animations) # 0 /\ Len(animations') = 0))]_vars

\* the tick just made has removed the last animations and signalled it
C18_Witness ==
    stopped /\ Len(animations) = 0 /\ created > 0

\* the colour of an object at rest
Resting(o) == IF selected[o] THEN Color_background ELSE Color_text

\* C17: clear_animations leaves the queue empty and gives every node and
\* vertex of the graph its resting colour, which its selection flag alone
\* decides, whatever was queued, started or paused
C17_ClearResetsColors ==
    [][ClearAnimations =>
         /\ animations' = <<>>
         /\ \A o \in ObjectsOf(Graph) : color'[o] = Resting(o)
         /\ selected' = selected]_vars

\* animations were queued and, no time having passed, only clear_animations
\* can have emptied the queue; the vertex is selected and a node is not, and
\* both have their resting colour
C17_Witness ==
    /\ animations = <<>> /\ created > 0 /\ now = 0
    /\ selected[VertexId(1, 2)] /\ color[VertexId(1, 2)] = Color_background
    /\ ~selected[1] /\ color[1] = Color_text

\* C19: no tick sets the colour of a node or vertex that is no longer in
\* the graph, nor starts an animation queued for it
C19_RemovedTargetsUntouched ==
    [][Draw =>
         \A o \in Objects \ ObjectsOf(Graph) :
            /\ color'[o] = color[o]
            /\ \A i \in DOMAIN animations :
                  (animations[i].obj = o /\ ~animations[i].a.started) =>
                     \A j \in PlacesOf(animations', animations[i].a.id) :
                        ~animations'[j].a.started]_vars

----------------------------------------------------------------------------
\* C16

\* two nodes of the graph on the same coordinates
Coincident(n1, n2) ==
    /\ n1 \in NodeSet /\ n2 \in NodeSet
    /\ n1 # n2
    /\ position[n1] = position[n2]

\* C16, as stated: with forces enabled, any two nodes of the graph that are
\* at exactly the same coordinates before a simulation step are at a nonzero
\* distance from each other after it, weakly connected or not, root or not.
C16_CoincidentNodesSeparate ==
    [][(ticks' # ticks /\ canvas_forces) =>
          \A n1, n2 \in NodeIds :
             Coincident(n1, n2) => position'[n1] # position'[n2]]_vars

\* C16, amended: with forces enabled, when two nodes that make up a
\* component by themselves, neither of them the root nor dragged, are on the
\* same coordinates before a simulation step, after the step the one that
\* comes first in the list of nodes is displaced from the other by the vector
\* (random(), random()) drawn for the pair: they are at a nonzero distance
\* unless both draws are 0.
C16_ConnectedPairNudged ==
    [][(ticks' # ticks /\ canvas_forces) =>
          \A i, j \in DOMAIN nodes :
             (/\ i < j
              /\ Coincident(nodes[i], nodes[j])
              /\ \A m \in NodeSet :
                    weakly_connected(Graph, m, nodes[i]) = "true"
                       <=> m \in {nodes[i], nodes[j]}
              /\ root \notin {nodes[i], nodes[j]}
              /\ ~drag[nodes[i]] /\ ~drag[nodes[j]])
             => VSub(position'[nodes[i]], position'[nodes[j]]) \in Nudges]_vars

\* a step has moved the first of two linked nodes, that only the random
\* vector can have set apart that way, off the second
C16_Witness ==
    /\ ticks = 1 /\ canvas_forces /\ root = 0
    /\ nodes = <<1, 2>>
    /\ is_adjacent_to(Graph, 1, 2)
    /\ ~drag[1] /\ ~drag[2]
    /\ VSub(position[1], position[2]) = <<1, 1>>

----------------------------------------------------------------------------
\* C12

\* every node of the graph has a label of its own
Lettered ==
    /\ \A n \in NodeSet : label[n].some
    /\ \A n, m \in NodeSet : n # m => label[n].text # label[m].text

\* the labels of the nodes, and the edges with their weights by label
LabelsOf(g, lab) == {lab[n].text : n \in SeqToSet(g.nodes)}
LabelledEdges(g, lab) ==
    {<<lab[v.node_from].text, lab[v.node_to].text, v.weight>> :
        v \in SeqToSet(g.vertices)}

\* C12: for a graph G whose nodes are labelled, from_string(to_string(G)) is
\* a graph with the same set of node labels, the same directed and weighted
\* flags, and the same edges with the same weights as G, compared by label
\* (also when G has isolated nodes, is unweighted, or has no edges).
C12_RoundTrip ==
    Lettered =>
       \E r \in {from_string(to_string(Graph, weighted, label, address))} :
          /\ ~r.error /\ r.built
          /\ LabelsOf(r.graph, r.label) = LabelsOf(Graph, label)
          /\ r.graph.directed = directed
          /\ r.weighted = weighted
          /\ LabelledEdges(r.graph, r.label) = LabelledEdges(Graph, label)

----------------------------------------------------------------------------
\* C14

\* what the first line says of the file
Arrowed(lines) == lines[1][2] \in {"->", "<-"}
Fields(lines) == IF Arrowed(lines) THEN 3 ELSE 2
WithWeights(lines) == Len(lines[1]) = Fields(lines) + 1

\* a text that cannot be read: a line has too few fields, or its weight is
\* no number
Malformed(lines) ==
    /\ lines # <<>>
    /\ \/ Len(lines[1]) < 2
       \/ \E i \in DOMAIN lines :
             \/ Len(lines[i]) < Fields(lines)
             \/ /\ WithWeights(lines)
                /\ \/ Len(lines[i]) < Fields(lines) + 1
                   \/ ~Parseable(lines[i][Fields(lines) + 1])

\* C14: when the text imported cannot be read (a line with too few fields or
\* an unparseable weight on any line, also on a line after valid ones), the
\* error is shown and the graph of the canvas is exactly as it was before:
\* the same nodes, labels, edges and flags.
C14_FailedImportKeepsGraph ==
    [][(Malformed(file.lines) /\ ImportGraph) =>
          (failed' /\ UNCHANGED <<graphVars, weighted, label>>)]_vars

\* the import of a text whose first line reads and a later one does not
\* has just failed
C14_Witness ==
    /\ failed
    /\ Len(file.lines) >= 2
    /\ Malformed(file.lines)
    /\ ~Malformed(<<file.lines[1]>>)

----------------------------------------------------------------------------
\* C21

\* C21, as stated: complement toggles every legal edge; in an undirected
\* graph every pair of distinct nodes is adjacent afterwards iff it was not
\* before, and in a directed graph every ordered pair (a, b), the pairs
\* (a, a) included, has an edge afterwards iff it had none before.
C21_ComplementTogglesEvery ==
    [][last'.op = "complement" =>
         \A a, b \in NodeSet :
            (directed \/ a # b) =>
               (HasEdge(vertices', a, b) <=> ~HasEdge(vertices, a, b))]_vars

\* C21, amended: complement toggles the edge of every ordered pair of
\* distinct nodes (both directions at once in an undirected graph), and
\* leaves the presence of every loop as it is: in a directed graph the loop
\* of a node is toggled twice.
C21_ComplementTogglesDistinct ==
    [][last'.op = "complement" =>
         \A a, b \in NodeSet :
            IF a # b
            THEN HasEdge(vertices', a, b) <=> ~HasEdge(vertices, a, b)
            ELSE HasEdge(vertices', a, a) <=> HasEdge(vertices, a, a)]_vars

\* complement was called on a directed graph and has left a loop, and a
\* vertex between two nodes
C21_Witness ==
    /\ last.op = "complement" /\ last.d
    /\ \E a \in NodeSet : HasEdge(vertices, a, a)
    /\ \E a, b \in NodeSet : a # b /\ HasEdge(vertices, a, b)

----------------------------------------------------------------------------
\* C22, C23

\* the edges a text has a line for: the directed edges, or the pairs joined
EdgesToWrite ==
    IF directed THEN EdgePairs(vertices)
    ELSE {{e[1], e[2]} : e \in EdgePairs(vertices)}

\* C22: to_string emits exactly one line per directed edge when the graph is
\* directed (also when both a->b and b->a exist) and exactly one line per
\* adjacent unordered pair when it is undirected; a line has a weight field
\* iff the graph is weighted.
C22_OneLinePerEdge ==
    [][ExportGraph =>
          /\ Len(file'.lines) = Cardinality(EdgesToWrite)
          /\ \A i \in DOMAIN file'.lines :
                Len(file'.lines[i])
                   = (IF directed THEN 3 ELSE 2) + (IF weighted THEN 1 ELSE 0)]_vars

\* C23: to_string is deterministic: the text of a graph does not depend on
\* the addresses of its node objects.
C23_TextIgnoresAddresses ==
    \A ids \in Addresses(nodes, FALSE) :
       to_string(Graph, weighted, label, ids)
          = to_string(Graph, weighted, label, address)

\* C24: the root is either none or a node of the graph, and a remove_node
\* of the root leaves the graph without a root and with no layers
C24_RootIsNoneOrInGraph ==
    /\ (root = 0 \/ InGraph(root))
    /\ [][/\ (root' = 0 \/ root' \in SeqToSet(nodes'))
          /\ (/\ last'.op = "remove_node"
              /\ ops' # ops
              /\ root # 0
              /\ root \notin SeqToSet(nodes'))
                => (root' = 0 /\ distance_from_root' = <<>>)]_vars

\* the root of a graph that keeps other nodes was removed
C24_Witness ==
    /\ last.op = "remove_node"
    /\ last.a = last.b
    /\ last.b # 0
    /\ nodes # <<>>
    /\ root = 0
    /\ distance_from_root = <<>>

\* the nodes within one more step along the adjacency lists
Further(S) == S \cup {m \in NodeSet : \E n \in S : is_adjacent_to(Graph, n, m)}

\* the number of steps of a shortest path from the root to n, -1 if none
RECURSIVE Depth(_, _, _)
Depth(seen, n, d) ==
    IF n \in seen THEN d
    ELSE IF Further(seen) = seen THEN -1
    ELSE Depth(Further(seen), n, d + 1)

\* the places of the layer table that hold n, as <<layer, index>>
ListedAt(n) ==
    {p \in (0..MaxNodes) \X (1..(MaxNodes * MaxNodes)) :
        /\ p[1] + 1 \in DOMAIN distance_from_root
        /\ p[2] \in DOMAIN distance_from_root[p[1] + 1]
        /\ distance_from_root[p[1] + 1][p[2]] = n}

\* C28: with a root, layer 0 is the root alone and every node that a path
\* leads to from the root is listed once, in the layer of its shortest
\* distance from the root
C28_LayersBucketByDepth ==
    root # 0 =>
       /\ distance_from_root # <<>>
       /\ distance_from_root[1] = <<root>>
       /\ \A n \in NodeSet :
             Depth({root}, n, 0) >= 0 =>
                /\ Cardinality(ListedAt(n)) = 1
                /\ \A p \in ListedAt(n) : p[1] = Depth({root}, n, 0)

\* three nodes of an undirected graph linked in a triangle, one the root,
\* and a node next to the root listed in layer 1 and in layer 2
C28_TriangleListedTwice ==
    /\ ~directed
    /\ root # 0
    /\ Cardinality(NodeSet) = 3
    /\ \A a, b \in NodeSet : a # b => is_adjacent_to(Graph, a, b)
    /\ \E n \in NodeSet : {p[1] : p \in ListedAt(n)} = {1, 2}

\* the nodes within one more link, taken in either direction
EitherWay(S) ==
    S \cup {m \in NodeSet :
               \E n \in S : is_adjacent_to(Graph, n, m) \/ is_adjacent_to(Graph, m, n)}

\* the nodes joined to the root by links taken in either direction
RECURSIVE WeaklyReached(_)
WeaklyReached(S) == IF EitherWay(S) = S THEN S ELSE WeaklyReached(EitherWay(S))

\* C29: in a directed graph with a root every node joined to the root by
\* links of either direction is listed in some layer
C29_LayersIgnoreDirection ==
    (directed /\ root # 0) =>
       \A n \in WeaklyReached({root}) : ListedAt(n) # {}

\* C30: a tick leaves the root where it is and leaves it no force
C30_RootStaysPut ==
    [][(ticks' # ticks /\ root # 0) =>
          /\ position'[root] = position[root]
          /\ forces'[root] = <<>>]_vars

\* after a tick with the forces enabled, a node linked to the root and away
\* from it, which pushed the root, has left the place it was put at
C30_Witness ==
    /\ ticks > 0
    /\ root # 0
    /\ canvas_forces
    /\ \E n \in NodeSet :
          /\ n # root
          /\ is_adjacent_to(Graph, root, n)
          /\ position[n] # position[root]
          /\ position[n] \notin Grid

\* the places of the queue whose entry has started
StartedAt == {i \in DOMAIN animations : animations[i].a.started}

\* C27: the entries that have started are the first ones of the queue, and
\* when two or more have started every one of them is parallel
C27_StartedPrefixIsParallel ==
    /\ \A i \in StartedAt : i > 1 => (i - 1) \in StartedAt
    /\ Cardinality(StartedAt) >= 2 =>
          \A i \in StartedAt : animations[i].a.parallel

\* two parallel entries play together and the entry behind them waits
C27_Witness ==
    /\ Len(animations) = 3
    /\ StartedAt = {1, 2}
    /\ ~animations[3].a.parallel

\* C26: a draw pops an entry only if the entry had started, was not paused
\* and its time had passed its duration; with a paused entry at the front a
\* draw pops nothing and starts nothing
C26_PausedEntriesStay ==
    [][Draw =>
          /\ \A i \in DOMAIN animations :
                (\A j \in DOMAIN animations' :
                    animations'[j].a.id # animations[i].a.id)
                   => /\ animations[i].a.started
                      /\ ~animations[i].a.paused
                      /\ animations[i].a.paused_time + elapsed(animations[i].a, now)
                            > animations[i].a.duration
          /\ (animations # <<>> /\ animations[1].a.paused)
                => animations' = animations]_vars

\* the entry at the front is paused with its time over, and a parallel
\* entry behind a parallel one has not started
C26_Witness ==
    /\ Len(animations) >= 2
    /\ animations[1].a.paused
    /\ animations[1].a.parallel
    /\ animations[1].a.paused_time + elapsed(animations[1].a, now)
          > animations[1].a.duration
    /\ animations[2].a.parallel
    /\ ~animations[2].a.started

\* C25: the label of every node of the graph is None or a text that is not
\* empty
C25_LabelNoneOrNonEmpty ==
    \A n \in NodeSet : label[n].some => label[n].text # ""

\* the labels set with set_label are None or not empty
C25_SetLabelNormalizes ==
    [][last'.op = "set_label" =>
          (label'[last'.a].some => label'[last'.a].text # "")]_vars

\* C31: a tick leaves a dragged node where it is and leaves it no force
C31_DraggedStaysPut ==
    [][ticks' # ticks =>
          \A n \in NodeSet :
             drag[n] => (position'[n] = position[n] /\ forces'[n] = <<>>)]_vars

\* after a tick with the forces enabled a node is dragged, and a node linked
\* to it, which pushed it, has left the place it was put at
C31_Witness ==
    /\ ticks > 0
    /\ canvas_forces
    /\ \E n, m \in NodeSet :
          /\ drag[n]
          /\ n # root
          /\ m # n
          /\ is_adjacent_to(Graph, n, m)
          /\ position[m] \notin Grid

\* C32: with the forces disabled a tick leaves every position and every
\* list of forces as it was
C32_DisabledTickChangesNothing ==
    [][(ticks' # ticks /\ ~canvas_forces) =>
          (position' = position /\ forces' = forces)]_vars

\* a tick has passed with the forces disabled, over a graph with a root and
\* a node linked to it
C32_Witness ==
    /\ ticks > 0
    /\ ~canvas_forces
    /\ root # 0
    /\ \E n \in NodeSet : n # root /\ is_adjacent_to(Graph, root, n)

\* C33: after a tick with the forces enabled no node of the graph has a
\* force left
C33_NoForceLeft ==
    [][(ticks' # ticks /\ canvas_forces) =>
          \A n \in NodeSet : forces'[n] = <<>>]_vars

\* after a tick with the forces enabled over a root, a dragged node and a
\* third node that has moved
C33_Witness ==
    /\ ticks > 0
    /\ canvas_forces
    /\ root # 0
    /\ \E n, m \in NodeSet :
          /\ n # root /\ m # root /\ n # m
          /\ drag[n]
          /\ position[m] \notin Grid
    /\ \A n \in NodeSet : forces[n] = <<>>

\* a node that is weakly connected to no other node of the graph
Alone(n) ==
    /\ n \in NodeSet
    /\ \A m \in NodeSet \ {n} : weakly_connected(Graph, n, m) # "true"

\* C34: with no root, a tick leaves a node that is alone in its component
\* where it is
C34_LoneNodeStaysPut ==
    [][(ticks' # ticks /\ root = 0) =>
          \A n \in NodeSet : Alone(n) => position'[n] = position[n]]_vars

\* after a tick with the forces enabled and no root, a node alone in its
\* component is off another node that has moved
C34_Witness ==
    /\ ticks > 0
    /\ canvas_forces
    /\ root = 0
    /\ \E n, m \in NodeSet :
          /\ Alone(n)
          /\ ~drag[n]
          /\ m # n
          /\ position[m] \notin Grid

\* C37: a set_directed that leaves the flag as it was leaves every edge and
\* every weight as it was
C37_SetDirectedSameIsNoOp ==
    [][(last'.op = "set_directed" /\ ops' # ops /\ directed' = directed) =>
          EdgeMap(vertices') = EdgeMap(vertices)]_vars

\* a set_directed(FALSE) of an undirected graph leaves the vertices alone
C37_UndirectedSameIsNoOp ==
    [][(last'.op = "set_directed" /\ ops' # ops /\ ~directed /\ ~directed') =>
          vertices' = vertices]_vars

\* C36: a node of the graph is adjacent to b exactly when the list of
\* vertices has a vertex from it to b
C36_AdjacencyIsEdgeList ==
    \A a \in NodeSet, b \in NodeIds :
       is_adjacent_to(Graph, a, b) <=> HasEdge(vertices, a, b)

\* a vertex joins a to b, distinct, and none joins b to a
OneWay(vs, a, b) == a # b /\ HasEdge(vs, a, b) /\ ~HasEdge(vs, b, a)

\* C39: after reorient the reverse of a vertex that was flipped has the
\* weight the vertex had, and every other vertex has the weight it had
C39_ReorientKeepsWeights ==
    [][last'.op = "reorient" =>
         \A a, b \in NodeSet :
            /\ OneWay(vertices, a, b) =>
                  WeightsOf(vertices', b, a) = WeightsOf(vertices, a, b)
            /\ (~OneWay(vertices, a, b) /\ ~OneWay(vertices, b, a)) =>
                  WeightsOf(vertices', a, b) = WeightsOf(vertices, a, b)]_vars

\* after reorient every vertex that was not flipped has the weight it had
C39_ReorientKeepsOtherWeights ==
    [][last'.op = "reorient" =>
         \A a, b \in NodeSet :
            (~OneWay(vertices, a, b) /\ ~OneWay(vertices, b, a)) =>
               WeightsOf(vertices', a, b) = WeightsOf(vertices, a, b)]_vars

\* the orders in which the sets of adjacent nodes may be gone through
GraphOrders == {o \in Orders : \A n \in NodeIds : InGraph(n) \/ o[n] = n}

\* the while loop run from the root, its passes counted
RunFromRoot(ord) == BFSRun(Graph, <<<<root, 1>>>>, {}, <<<<root>>>>, ord, Fuel)

\* C38: with a root, the while loop that builds the layers empties its queue,
\* whatever the order of the sets, and the layers of the graph are those it
\* leaves
C38_LayersLoopEnds ==
    root # 0 =>
       /\ \A ord \in GraphOrders : RunFromRoot(ord).done
       /\ \E ord \in GraphOrders : RunFromRoot(ord).layers = distance_from_root

\* the root has a loop, or the nodes are linked in a triangle, and the while
\* loop has made more passes than there are nodes
C38_Witness ==
    /\ root # 0
    /\ \/ is_adjacent_to(Graph, root, root)
       \/ /\ Cardinality(NodeSet) = 3
          /\ \A a, b \in NodeSet : a # b => is_adjacent_to(Graph, a, b)
    /\ \E ord \in GraphOrders :
          /\ RunFromRoot(ord).done
          /\ Fuel - RunFromRoot(ord).left > Cardinality(NodeSet)

\* the entry of the n-th request is in the queue; it has started
Queued(n) == \E k \in DOMAIN animations : animations[k].a.id = n
Playing(n) ==
    \E k \in DOMAIN animations :
       animations[k].a.id = n /\ animations[k].a.started

\* C35: every entry of the queue is started and is removed in the end, and a
\* queue with entries is emptied with animation_stopped called
C35_QueueDrains ==
    /\ \A n \in 1..MaxQueued : Queued(n) ~> Playing(n)
    /\ \A n \in 1..MaxQueued : Queued(n) ~> ~Queued(n)
    /\ (animations # <<>>) ~> (animations = <<>> /\ stopped)

====
